---- MODULE Spec2Model ----
(***************************************************************************)
(* Model of the chat backend of Medical-webwithai:                         *)
(*   - WebMCPAgent.chat_stream (backend/mcp_agent.py), the multi-round     *)
(*     "stream, maybe interrupt for tools" generator;                      *)
(*   - websocket_chat / stream_and_persist (backend/main.py), the task     *)
(*     that consumes the generator, forwards every event to the client     *)
(*     and persists the turn;                                              *)
(*   - handle_pause (backend/app_main/ws_handlers.py) and the map          *)
(*     active_stream_tasks.                                                *)
(*                                                                         *)
(* Scheduling is cooperative (asyncio): a task runs without interruption   *)
(* from one suspension point to the next.  The suspension points of a turn *)
(* are the awaits on the model stream, on a tool invocation and on the     *)
(* database; a message handed to send_personal_message is taken as         *)
(* delivered to the connection's channel in the step that sends it.        *)
(*                                                                         *)
(* Spec is the server as main.py runs it: connections, their user_msg and  *)
(* pause handlers, and the turn tasks from creation to the end of their    *)
(* finally block.  The call of chat_stream in stream_and_persist passes a  *)
(* keyword the function does not declare, so in Spec a turn leaves the try *)
(* block with a TypeError before the generator yields anything.            *)
(*                                                                         *)
(* SpecLoop follows one turn through chat_stream statement by statement,   *)
(* with chat_stream called with the parameters it declares and consumed by *)
(* the loop body of stream_and_persist; the connection handlers may run    *)
(* only while that turn is suspended.                                      *)
(***************************************************************************)
EXTENDS Integers, Sequences, FiniteSets, TLC

\* ------------------------------------------------- constants and bounds
\* max_rounds is the constant of chat_stream.  The others bound the model:
\* content pieces per model stream, tool calls per round, connections, turn
\* tasks.
max_rounds == 25
MaxChunks == 1
MaxCalls == 2
NumConns == 2
MaxTasks == 2

Conns == 1..NumConns
TaskIds == 1..MaxTasks
\* the turn SpecLoop follows through chat_stream: the first task created
T == CHOOSE t \in TaskIds : \A u \in TaskIds : t <= u

\* names the model may put in a tool call, and the names self.tools holds
ToolNames == {"showtables", "nosuch"}
Registry == {"showtables"}
ModelKeys == {"m1"}

CallSeqs == UNION {[1..n -> ToolNames] : n \in 0..MaxCalls}

VARIABLES gen, tasks, active_stream_tasks, outbox, conversation_data,
          user_has_images, non_multimodal_models, saved, pauses

vars == <<gen, tasks, active_stream_tasks, outbox, conversation_data,
          user_has_images, non_multimodal_models, saved, pauses>>

\* The tool registry of MCPToolsManager (backend/get_mcp_tools.py): self.tools
\* as the sequence of the tools' names, self._used_tool_names, the calls of
\* _sanitize_and_uniq_tool_name made so far (raw name, returned name), and
\* the position of initialize_mcp_tools.
VARIABLES tools, used_tool_names, sanitize_calls, init_pc

\* self.tools_by_server, kept as the sources in the order they were asked:
\* the source, the tools it gave, and whether asking it raised.
VARIABLES tools_by_server

\* MessageProcessor.build_shared_history (backend/mcp_modules/
\* message_processor.py): the persisted turns it is given and the list it
\* returns, <<>> while it has not run, and the other arguments of the call.
VARIABLES history, shared_history, built

\* ChatDatabase (backend/database.py): the rows of chat_records and of
\* chat_conversation_files, the AUTOINCREMENT counter of chat_records, the
\* database clock (CURRENT_TIMESTAMP), the number of times in a row the file
\* index of one thread was rebuilt over an unchanged turn log, the task of a
\* replay_edit, and the list get_chat_history returned last.
VARIABLES chat_records, conversation_files, next_id, db_now, rebuilds,
          edit_task, fetched

dbvars == <<chat_records, conversation_files, next_id, db_now, rebuilds,
            edit_task, fetched>>

\* The threads start_conversation has begun: the <<session_id,
\* conversation_id>> of each call, in the order of the calls.
VARIABLES started_threads

\* The dictionary get_stats returned last ("called" FALSE before a call).
VARIABLES last_stats

\* The frame of websocket_chat of one connection, whose variables the turn
\* tasks created in it close over: the dict the name conversation_data is
\* bound to and the value of attachments (each known by the number of the
\* message that made it), the dicts made so far, the turn tasks, and the
\* rows handed to save_conversation.
VARIABLES frame

\* WebMCPAgent._current_session_id_ctx, a ContextVar: its value in the
\* context of the turn task of each connection (<<>> for the default None,
\* and when the connection has no turn), the value set last in any context,
\* and what the last call of a local medical tool read.
VARIABLES current_session_id_ctx

\* The session contexts (mcp_agent.session_contexts, keyed by the session id
\* of a connection), the turn chat_stream runs with the locals it chose at
\* its start, and the last reply of a handler or result of a tool call.
VARIABLES session_contexts, turn, outcome

allvars == <<vars, tools, used_tool_names, sanitize_calls, init_pc,
             tools_by_server,
             history, shared_history, built, dbvars, session_contexts, turn,
             outcome, started_threads, last_stats, frame,
             current_session_id_ctx>>

\* the parts of the backend outside the chat turn, as constructed
Constructed ==
    /\ tools = <<>>
    /\ used_tool_names = {}
    /\ sanitize_calls = <<>>
    /\ init_pc = "new"
    /\ tools_by_server = <<>>
    /\ history = <<>>
    /\ shared_history = <<>>
    /\ built = [user_input |-> [list |-> FALSE, parts |-> <<>>],
                force_text_only |-> FALSE]
    /\ chat_records = {}
    /\ conversation_files = {}
    /\ next_id = 1
    /\ db_now = 0
    /\ rebuilds = [thread |-> <<>>, times |-> 0]
    /\ edit_task = [pc |-> "none", thread |-> <<>>]
    /\ fetched = [thread |-> <<>>, limit |-> 0, ids |-> <<>>]
    /\ session_contexts =
          [c \in {"c1", "c2"} |->
              [connected |-> FALSE, msid |-> <<>>, model |-> "",
               effective_session_id |-> "", effective_conversation_id |-> <<>>,
               conversation_id |-> <<>>]]
    /\ turn = [pc |-> "idle", session_id |-> "", model_at_start |-> "",
               profile |-> "", used |-> ""]
    /\ outcome = [type |-> "", accesses |-> <<>>]
    /\ started_threads = <<>>
    /\ last_stats = [called |-> FALSE, total_records |-> 0,
                     total_sessions |-> 0, total_conversations |-> 0,
                     latest_record |-> <<>>]
    /\ frame = [conversation_data |-> 0, attachments |-> 0, dicts |-> <<>>,
                turns |-> <<>>, saved |-> <<>>]
    /\ current_session_id_ctx =
          [in_task |-> [c \in {"c1", "c2"} |-> <<>>], set_last |-> <<>>,
           read |-> <<>>]

\* Each specification follows one part of the backend; the state of the
\* other parts stays as it is.
Only(part) ==
    /\ IF part = "chat" THEN TRUE ELSE UNCHANGED vars
    /\ IF part = "tools" THEN TRUE
       ELSE UNCHANGED <<tools, used_tool_names, sanitize_calls, init_pc,
                        tools_by_server>>
    /\ IF part = "history" THEN TRUE
       ELSE UNCHANGED <<history, shared_history, built>>
    /\ IF part = "db" THEN TRUE ELSE UNCHANGED dbvars
    /\ IF part = "session" THEN TRUE
       ELSE UNCHANGED <<session_contexts, turn, outcome>>
    /\ IF part = "conversations" THEN TRUE ELSE UNCHANGED started_threads
    /\ IF part = "stats" THEN TRUE ELSE UNCHANGED last_stats
    /\ IF part = "frame" THEN TRUE ELSE UNCHANGED frame
    /\ IF part = "scope" THEN TRUE ELSE UNCHANGED current_session_id_ctx

\* ---------------------------------------------------------------- events
Ev(type, kind, idx) == [type |-> type, kind |-> kind, idx |-> idx]
EvStatus == Ev("status", "", 0)
EvStart == Ev("ai_response_start", "", 0)
EvEnd == Ev("ai_response_end", "", 0)
EvUsage == Ev("token_usage", "", 0)
EvError == Ev("error", "", 0)
EvChunk(kind) == Ev("ai_response_chunk", kind, 0)
EvPlan(n) == Ev("tool_plan", "", n)
EvToolStart(i) == Ev("tool_start", "", i)
EvToolEnd(i) == Ev("tool_end", "", i)
EvToolError(i) == Ev("tool_error", "", i)

Count(evs, type) == Cardinality({k \in 1..Len(evs) : evs[k].type = type})
Has(evs, type) == \E k \in 1..Len(evs) : evs[k].type = type

\* ------------------------------------------------- the client's channel
\* What has been delivered on one websocket: whether an ai_response_start
\* and an ai_response_end were, whether the last of the two was a start (the
\* client shows a response that is still streaming), and who sent a message
\* here.
EmptyBox == [started |-> FALSE, ended |-> FALSE, open |-> FALSE, senders |-> {}]

\* who calls send_personal_message: the handler loop of a connection, or a
\* turn task that a connection created
Handler(c) == [conn |-> c, task |-> 0]
TurnTask(c, t) == [conn |-> c, task |-> t]

Delivered(box, type, sender) ==
    [box EXCEPT !.started = @ \/ type = "ai_response_start",
                !.ended = @ \/ type = "ai_response_end",
                !.open = IF type = "ai_response_start" THEN TRUE
                         ELSE IF type = "ai_response_end" THEN FALSE ELSE @,
                !.senders = @ \cup {sender}]

\* ConnectionManager.send_personal_message(message, websocket): the message
\* goes to the websocket it is given; sender is the handler or turn task that
\* makes the call.
send_personal_message(ob, type, websocket, sender) ==
    [ob EXCEPT ![websocket] = Delivered(@, type, sender)]

\* websocket_chat after manager.connect: session_info goes to the new
\* connection
Connected(c) == send_personal_message([d \in Conns |-> EmptyBox], "session_info",
                                      c, Handler(c))[c]

RECURSIVE SendAll(_, _, _, _)
SendAll(ob, evs, websocket, sender) ==
    IF evs = <<>> THEN ob
    ELSE SendAll(send_personal_message(ob, Head(evs).type, websocket, sender),
                 Tail(evs), websocket, sender)

\* ------------------------------------- stream_and_persist: the loop body
\* conversation_data is a variable of the frame of websocket_chat of its
\* connection; of its lists the model keeps what the finally block reads:
\* whether ai_response_parts holds a chunk, whether mcp_results holds a
\* failed result, and whether a usage was recorded.
EmptyData == [parts |-> FALSE, err |-> FALSE, usage |-> FALSE]

Accumulate(cd, evs) ==
    [cd EXCEPT !.parts = @ \/ Has(evs, "ai_response_chunk"),
               !.err = @ \/ Has(evs, "tool_error"),
               !.usage = @ \/ Has(evs, "token_usage")]

\* ai_response_final of the finally block
FinalText(cd) ==
    IF cd.parts THEN "text" ELSE IF cd.err THEN "errors" ELSE "empty"

\* a turn task: where it stands, the connection whose frame it closes over,
\* a cancel() not yet delivered, a CancelledError to re-raise, its local
\* response_started and ai_response_final; replaced records that a later
\* task took its entry in active_stream_tasks while it was still held there
NoTask == [pc |-> "none", conn |-> 0, cancel |-> FALSE, reraise |-> FALSE,
           response_started |-> FALSE, final |-> "empty", replaced |-> FALSE]

\* ------------------------------------------------ chat_stream: the state
\* gen holds the local variables of the followed call of chat_stream, with
\*   shared_history  the entries appended to the list in the current round,
\*   rlog            the events yielded since the loop head was last passed,
\*   raised          the calls of the round whose ainvoke raised,
\*   model_calls     the streaming model calls begun in the round,
\*   call_raised     those of them that raised ("probe_mm" for a probe whose
\*                   error text matches _is_multimodal_error),
\*   n_start, n_end  the ai_response_start / ai_response_end events yielded.
RoundReset(g) ==
    [g EXCEPT !.response_started = FALSE, !.buffered_chunks = 0,
              !.content_preview = FALSE, !.last_usage = FALSE,
              !.tool_calls_check = <<>>, !.multimodal_fallback_attempted = FALSE,
              !.ended = FALSE, !.i = 0, !.raised = {},
              !.model_calls = 0, !.call_raised = {},
              !.shared_history = <<>>, !.rlog = <<>>]

GenInit ==
    [pc |-> "start", round_index |-> 0, combined_response_started |-> FALSE,
     response_started |-> FALSE, buffered_chunks |-> 0,
     content_preview |-> FALSE, last_usage |-> FALSE, tool_calls_check |-> <<>>,
     multimodal_fallback_attempted |-> FALSE, ended |-> FALSE, i |-> 0,
     raised |-> {}, model_calls |-> 0, call_raised |-> {},
     shared_history |-> <<>>, rlog |-> <<>>, n_start |-> 0, n_end |-> 0]

\* the awaits of chat_stream: the model stream (probe, retry), a tool
Suspended(g) == g.pc \in {"probe", "retry", "tool_wait"}

\* a connection handler can run: the followed turn is not in mid-step
HandlersMayRun == tasks[T].pc = "streaming" => Suspended(gen)

InitLoop ==
    /\ gen = GenInit
    /\ tasks = [t \in TaskIds |->
                  IF t = T THEN [NoTask EXCEPT !.pc = "streaming", !.conn = 1]
                  ELSE NoTask]
    /\ active_stream_tasks = [c \in Conns |-> IF c = 1 THEN T ELSE 0]
    /\ outbox = [c \in Conns |-> Connected(c)]
    /\ conversation_data = [c \in Conns |-> EmptyData]
    /\ user_has_images = [c \in Conns |-> FALSE]
    /\ non_multimodal_models = {}
    /\ saved = {}
    /\ pauses = 0
    /\ Constructed

\* --------------------------------------------- chat_stream: the statements
Running == tasks[T].pc = "streaming" /\ ~tasks[T].cancel

\* faulty variant: one websocket variable shared by all frames, holding the
\* connection accepted last
WebsocketShared(t) == CHOOSE c \in Conns : \A d \in Conns : d <= c

\* the websocket variable of the frame that created task t
Websocket(t) == tasks[t].conn

\* chat_stream moves on to g having yielded evs; the loop body of
\* stream_and_persist forwards each event to the websocket and accumulates it
Yield(g, evs) ==
    /\ gen' = [g EXCEPT !.rlog = @ \o evs,
                        !.n_start = @ + Count(evs, "ai_response_start"),
                        !.n_end = @ + Count(evs, "ai_response_end")]
    /\ outbox' = SendAll(outbox, evs, Websocket(T), TurnTask(tasks[T].conn, T))
    /\ conversation_data' =
           [conversation_data EXCEPT ![tasks[T].conn] = Accumulate(@, evs)]

\* the loop goes on to the next event
Continue(evs) ==
    /\ tasks' = [tasks EXCEPT ![T].response_started =
                                  @ \/ Has(evs, "ai_response_start")]
    /\ UNCHANGED <<active_stream_tasks, user_has_images, saved, pauses>>

\* the loop is left (the generator returned, or an error event broke it): the
\* finally block computes ai_response_final and awaits save_conversation
Finish(evs) ==
    /\ tasks' = [tasks EXCEPT ![T] =
                   [@ EXCEPT !.response_started = @ \/ Has(evs, "ai_response_start"),
                             !.pc = "saving",
                             !.final = FinalText(conversation_data'[tasks[T].conn])]]
    /\ UNCHANGED <<active_stream_tasks, user_has_images, saved, pauses>>

\* yield status, then the model profile, the LLM bundle and the shared history;
\* creating the bundle can raise
GenStart ==
    /\ Running /\ gen.pc = "start"
    /\ \E fail \in BOOLEAN :
          Yield([gen EXCEPT !.pc = IF fail THEN "gen_error" ELSE "loop_head"],
                <<EvStatus>>)
    /\ Continue(<<EvStatus>>)
    /\ UNCHANGED non_multimodal_models

\* faulty variant: the loop test admits one round more
LoopContinuesInclusive(g) == g.round_index <= max_rounds

\* while round_index < max_rounds
LoopContinues(g) == g.round_index < max_rounds

LoopHead ==
    /\ Running /\ gen.pc = "loop_head"
    /\ Yield(IF LoopContinues(gen)
             THEN [RoundReset(gen) EXCEPT !.round_index = @ + 1,
                                          !.model_calls = 1, !.pc = "probe"]
             ELSE [RoundReset(gen) EXCEPT !.pc = "exhausted"],
             <<>>)
    /\ Continue(<<>>)
    /\ UNCHANGED non_multimodal_models

\* on_chat_model_stream with content, in the probe of the round
ProbeChunkEvents(g) ==
    (IF g.combined_response_started THEN <<>> ELSE <<EvStart>>)
        \o <<EvChunk("delta")>>

ProbeChunk ==
    /\ Running /\ gen.pc = "probe" /\ ~gen.ended
    /\ gen.buffered_chunks < MaxChunks
    /\ Yield([gen EXCEPT !.combined_response_started = TRUE,
                         !.response_started = TRUE,
                         !.buffered_chunks = @ + 1],
             ProbeChunkEvents(gen))
    /\ Continue(ProbeChunkEvents(gen))
    /\ UNCHANGED non_multimodal_models

\* on_chat_model_stream with content, in the text-only retry
RetryChunk ==
    /\ Running /\ gen.pc = "retry" /\ ~gen.ended
    /\ gen.buffered_chunks < MaxChunks
    /\ Yield([gen EXCEPT !.response_started = TRUE, !.buffered_chunks = @ + 1],
             <<EvChunk("delta")>>)
    /\ Continue(<<EvChunk("delta")>>)
    /\ UNCHANGED non_multimodal_models

\* on_chat_model_end: tool calls, completion content and (probe only) usage
ModelEnd ==
    /\ Running /\ gen.pc \in {"probe", "retry"} /\ ~gen.ended
    /\ \E calls \in CallSeqs, preview \in BOOLEAN, usage \in BOOLEAN :
          \* the content and the usage of a completion that asks for tools are
          \* never read: the next round resets them
          /\ calls # <<>> => ~preview /\ ~usage
          /\ Yield([gen EXCEPT !.ended = TRUE,
                            !.tool_calls_check = calls,
                            !.content_preview = preview,
                            !.last_usage = IF gen.pc = "probe" /\ usage
                                           THEN TRUE ELSE @],
                   <<>>)
    /\ Continue(<<>>)
    /\ UNCHANGED non_multimodal_models

\* the stream is exhausted
StreamClose ==
    /\ Running /\ gen.pc \in {"probe", "retry"}
    /\ Yield([gen EXCEPT !.pc = "branch"], <<>>)
    /\ Continue(<<>>)
    /\ UNCHANGED non_multimodal_models

\* the downgrade notice sent before the text-only retry
NoticeEvents(g) ==
    (IF g.combined_response_started THEN <<>> ELSE <<EvStart>>)
        \o <<EvChunk("notice")>>

\* faulty variant: the exception of the model call reaches the except clause
\* of chat_stream
StreamErrorPropagates(g, call) ==
    [g EXCEPT !.call_raised = @ \cup {call}, !.pc = "gen_error"]

\* the except clauses of the model call (mcp_agent.py:417-480) when no retry
\* follows: tool_calls_check = None, content_preview = ""
StreamErrorAbsorbed(g, call) ==
    [g EXCEPT !.call_raised = @ \cup {call},
              !.tool_calls_check = <<>>, !.content_preview = FALSE,
              !.pc = "branch"]

\* the probe raises; mm: the error text matches _is_multimodal_error;
\* cfail: _convert_multimodal_to_text raises on the message list
ProbeFail ==
    /\ Running /\ gen.pc = "probe"
    /\ \E mm \in BOOLEAN, cfail \in BOOLEAN, key \in ModelKeys :
          IF ~gen.multimodal_fallback_attempted /\ mm
          THEN /\ non_multimodal_models' = non_multimodal_models \cup {key}
               /\ Yield([gen EXCEPT !.combined_response_started = TRUE,
                                    !.multimodal_fallback_attempted = ~cfail,
                                    !.ended = FALSE,
                                    !.call_raised = @ \cup {"probe_mm"},
                                    !.model_calls = IF cfail THEN @ ELSE @ + 1,
                                    !.pc = IF cfail THEN "gen_error" ELSE "retry"],
                        NoticeEvents(gen))
               /\ Continue(NoticeEvents(gen))
          ELSE /\ ~cfail
               /\ UNCHANGED non_multimodal_models
               /\ Yield(StreamErrorAbsorbed(gen, "probe"), <<>>)
               /\ Continue(<<>>)

\* the text-only retry raises too
RetryFail ==
    /\ Running /\ gen.pc = "retry"
    /\ Yield(StreamErrorAbsorbed(gen, "retry"), <<>>)
    /\ Continue(<<>>)
    /\ UNCHANGED non_multimodal_models

\* if tool_calls_check: separator, tool_plan, the assistant entry
PlanEvents(g) ==
    (IF g.response_started /\ g.buffered_chunks > 0
     THEN <<EvChunk("sep")>> ELSE <<>>)
        \o <<EvPlan(Len(g.tool_calls_check))>>

AssistantEntry(g) ==
    [role |-> "assistant", id |-> 0, n |-> Len(g.tool_calls_check), err |-> FALSE]

Branch ==
    /\ Running /\ gen.pc = "branch"
    /\ IF gen.tool_calls_check # <<>>
       THEN /\ Yield([gen EXCEPT !.buffered_chunks =
                                     IF gen.response_started /\ @ > 0 THEN 0 ELSE @,
                                 !.shared_history = Append(@, AssistantEntry(gen)),
                                 !.i = 1,
                                 !.pc = "tool_begin"],
                     PlanEvents(gen))
            /\ Continue(PlanEvents(gen))
       ELSE /\ Yield([gen EXCEPT !.pc = "finalize"], <<>>)
            /\ Continue(<<>>)
    /\ UNCHANGED non_multimodal_models

\* faulty variant: every tool-role entry carries the id of the first call
ToolEntryOfFirstCall(i, res) ==
    [role |-> "tool", id |-> 1, n |-> 0, err |-> (res = "err")]

\* the tool-role entry appended after every call
ToolEntry(i, res) ==
    [role |-> "tool", id |-> i, n |-> 0, err |-> (res = "err")]

\* faulty variant: the tool-role entry is appended for a successful call only
AfterToolEntryOnSuccessOnly(g, res) ==
    [g EXCEPT !.shared_history = IF res = "ok" THEN Append(@, ToolEntry(g.i, res))
                                 ELSE @,
              !.i = IF g.i < Len(g.tool_calls_check) THEN @ + 1 ELSE @,
              !.pc = IF g.i < Len(g.tool_calls_check)
                     THEN "tool_begin" ELSE "loop_head"]

\* shared_history.append(tool message); next call, or continue with the loop
AfterTool(g, res) ==
    [g EXCEPT !.shared_history = Append(@, ToolEntry(g.i, res)),
              !.i = IF g.i < Len(g.tool_calls_check) THEN @ + 1 ELSE @,
              !.pc = IF g.i < Len(g.tool_calls_check)
                     THEN "tool_begin" ELSE "loop_head"]

\* tool_start, then the lookup in self.tools by exact name
NotFoundEvents(i) == <<EvToolStart(i), EvToolError(i)>>

ToolBegin ==
    /\ Running /\ gen.pc = "tool_begin"
    /\ IF gen.tool_calls_check[gen.i] \in Registry
       THEN /\ Yield([gen EXCEPT !.pc = "tool_wait"], <<EvToolStart(gen.i)>>)
            /\ Continue(<<EvToolStart(gen.i)>>)
       ELSE /\ Yield(AfterTool(gen, "err"), NotFoundEvents(gen.i))
            /\ Continue(NotFoundEvents(gen.i))
    /\ UNCHANGED non_multimodal_models

\* faulty variant: an exception of the tool is not caught per call and reaches the
\* except clause of chat_stream
ToolOutcomePropagates(g, ok) ==
    [events |-> IF ok THEN <<EvToolEnd(g.i)>> ELSE <<>>,
     next |-> IF ok THEN AfterTool(g, "ok") ELSE [g EXCEPT !.pc = "gen_error"]]

\* await target_tool.ainvoke(parsed_args) returns or raises
ToolOutcome(g, ok) ==
    [events |-> IF ok THEN <<EvToolEnd(g.i)>> ELSE <<EvToolError(g.i)>>,
     next |-> AfterTool(g, IF ok THEN "ok" ELSE "err")]

ToolReturn ==
    /\ Running /\ gen.pc = "tool_wait"
    /\ \E ok \in BOOLEAN :
          /\ Yield([ToolOutcome(gen, ok).next EXCEPT
                       !.raised = IF ok THEN @ ELSE @ \cup {gen.i}],
                   ToolOutcome(gen, ok).events)
          /\ Continue(ToolOutcome(gen, ok).events)
    /\ UNCHANGED non_multimodal_models

\* faulty variant: the usage is sent before the response is ended
FinalizeUsageFirst(g) ==
    (IF g.last_usage THEN <<EvUsage>> ELSE <<>>)
        \o (IF g.combined_response_started
            THEN <<EvEnd>>
            ELSE <<EvStart>>
                   \o (IF g.buffered_chunks > 0 \/ g.content_preview
                       THEN <<EvChunk("final")>> ELSE <<>>)
                   \o <<EvEnd>>)

\* no tool call: start (once), the final text if nothing was streamed, end,
\* and the usage of this round
FinalizeEvents(g) ==
    (IF g.combined_response_started
     THEN <<EvEnd>>
     ELSE <<EvStart>>
            \o (IF g.buffered_chunks > 0 \/ g.content_preview
                THEN <<EvChunk("final")>> ELSE <<>>)
            \o <<EvEnd>>)
        \o (IF g.last_usage THEN <<EvUsage>> ELSE <<>>)

Finalize ==
    /\ Running /\ gen.pc = "finalize"
    /\ Yield([gen EXCEPT !.combined_response_started = TRUE, !.pc = "returned"],
             FinalizeEvents(gen))
    /\ Finish(FinalizeEvents(gen))
    /\ UNCHANGED non_multimodal_models

\* the rounds are used up
ExhaustedEvents == <<EvStart, EvChunk("limit"), EvEnd>>

Exhausted ==
    /\ Running /\ gen.pc = "exhausted"
    /\ Yield([gen EXCEPT !.pc = "gave_up"], ExhaustedEvents)
    /\ Finish(ExhaustedEvents)
    /\ UNCHANGED non_multimodal_models

\* except Exception of chat_stream: one error event; the loop body breaks
GenError ==
    /\ Running /\ gen.pc = "gen_error"
    /\ Yield([gen EXCEPT !.pc = "failed"], <<EvError>>)
    /\ Finish(<<EvError>>)
    /\ UNCHANGED non_multimodal_models

\* ------------------------------------------ the turn task and its handlers
\* save_conversation returned (ok: the row was inserted); record_saved is
\* sent, the task's key is popped and the task ends, re-raising a pending
\* CancelledError
SaveDone(t) ==
    /\ tasks[t].pc = "saving" /\ ~tasks[t].cancel
    /\ \E ok \in BOOLEAN : saved' = IF ok THEN saved \cup {t} ELSE saved
    /\ outbox' = send_personal_message(outbox, "record_saved", Websocket(t),
                                       TurnTask(tasks[t].conn, t))
    /\ active_stream_tasks' = [active_stream_tasks EXCEPT ![tasks[t].conn] = 0]
    /\ tasks' = [tasks EXCEPT ![t].pc = IF tasks[t].reraise THEN "cancelled"
                                        ELSE "done"]
    /\ UNCHANGED <<gen, conversation_data, user_has_images,
                   non_multimodal_models, pauses>>

\* faulty variant: handle_pause cancels the task and sends nothing
PauseReplyNothing == <<>>

\* what handle_pause sends once the task is popped and cancelled
PauseReply == <<EvEnd>>

\* task.done()
Done(t) == tasks[t].pc \in {"done", "cancelled"}

\* handle_pause on connection c: pop the task under the connection's session
\* id, cancel it unless it is done, send ai_response_end.  pauses counts the
\* pause messages handled, modulo 2.
Pause(c) ==
    /\ HandlersMayRun
    /\ pauses' = (pauses + 1) % 2
    /\ active_stream_tasks' = [active_stream_tasks EXCEPT ![c] = 0]
    /\ tasks' = IF active_stream_tasks[c] # 0 /\ ~Done(active_stream_tasks[c])
                THEN [tasks EXCEPT ![active_stream_tasks[c]].cancel = TRUE]
                ELSE tasks
    /\ outbox' = SendAll(outbox, PauseReply, c, Handler(c))
    /\ UNCHANGED <<gen, conversation_data, user_has_images,
                   non_multimodal_models, saved>>

\* except asyncio.CancelledError of stream_and_persist
CancelReply(started) == IF started THEN <<EvEnd>> ELSE <<>>

\* the CancelledError reaches the task while it awaits the model or a tool:
\* it leaves chat_stream (which catches Exception only) and with it the
\* locals of the round, stream_and_persist sends ai_response_end if it saw
\* the start, and the finally block saves
CancelledStreaming ==
    /\ tasks[T].pc = "streaming" /\ tasks[T].cancel
    /\ gen' = [RoundReset(gen) EXCEPT !.pc = "cancelled"]
    /\ outbox' = SendAll(outbox, CancelReply(tasks[T].response_started),
                         Websocket(T), TurnTask(tasks[T].conn, T))
    /\ tasks' = [tasks EXCEPT ![T] =
                   [@ EXCEPT !.pc = "saving", !.cancel = FALSE, !.reraise = TRUE,
                             !.final = FinalText(conversation_data[tasks[T].conn])]]
    /\ UNCHANGED <<active_stream_tasks, conversation_data, user_has_images,
                   non_multimodal_models, saved, pauses>>

\* the CancelledError reaches the task inside save_conversation (ins: the row
\* was already inserted): the inner finally pops the key and the task ends
CancelledSaving(t) ==
    /\ tasks[t].pc = "saving" /\ tasks[t].cancel
    /\ \E ins \in BOOLEAN : saved' = IF ins THEN saved \cup {t} ELSE saved
    /\ active_stream_tasks' = [active_stream_tasks EXCEPT ![tasks[t].conn] = 0]
    /\ tasks' = [tasks EXCEPT ![t] = [@ EXCEPT !.pc = "cancelled", !.cancel = FALSE]]
    /\ UNCHANGED <<gen, outbox, conversation_data, user_has_images,
                   non_multimodal_models, pauses>>

NextLoop ==
    \/ GenStart /\ Only("chat")
    \/ LoopHead /\ Only("chat")
    \/ ProbeChunk /\ Only("chat")
    \/ RetryChunk /\ Only("chat")
    \/ ModelEnd /\ Only("chat")
    \/ StreamClose /\ Only("chat")
    \/ ProbeFail /\ Only("chat")
    \/ RetryFail /\ Only("chat")
    \/ Branch /\ Only("chat")
    \/ ToolBegin /\ Only("chat")
    \/ ToolReturn /\ Only("chat")
    \/ Finalize /\ Only("chat")
    \/ Exhausted /\ Only("chat")
    \/ GenError /\ Only("chat")
    \/ SaveDone(T) /\ Only("chat")
    \/ Pause(tasks[T].conn) /\ Only("chat")
    \/ CancelledStreaming /\ Only("chat")
    \/ CancelledSaving(T) /\ Only("chat")

SpecLoop == InitLoop /\ [][NextLoop]_vars

\* ------------------------------------------------------------ the server
Init ==
    /\ gen = GenInit
    /\ tasks = [t \in TaskIds |-> NoTask]
    /\ active_stream_tasks = [c \in Conns |-> 0]
    /\ outbox = [c \in Conns |-> Connected(c)]
    /\ conversation_data = [c \in Conns |-> EmptyData]
    /\ user_has_images = [c \in Conns |-> FALSE]
    /\ non_multimodal_models = {}
    /\ saved = {}
    /\ pauses = 0
    /\ Constructed

\* asyncio.create_task: the next task object
NewTask == CHOOSE t \in TaskIds :
               tasks[t].pc = "none" /\ \A u \in TaskIds : u < t => tasks[u].pc # "none"

\* a user_msg on connection c.  An empty message is answered with an error.
\* Otherwise user_msg_received is sent, conversation_data of the frame is
\* bound to a new dict, the history is read, the task is created and stored
\* under the session id of the connection.  The handler is suspended while it
\* reads the history, so a task it created for an earlier message has taken
\* its first step before the next task is created.
UserMsg(c) ==
    /\ HandlersMayRun
    /\ \E content \in {"empty", "text", "images"} :
          IF content = "empty"
          THEN /\ outbox' = send_personal_message(outbox, "error", c, Handler(c))
               /\ UNCHANGED <<tasks, active_stream_tasks, conversation_data,
                              user_has_images>>
          ELSE /\ \E t \in TaskIds : tasks[t].pc = "none"
               /\ \A t \in TaskIds : tasks[t].conn = c => tasks[t].pc # "created"
               /\ outbox' = send_personal_message(outbox, "user_msg_received", c,
                                                  Handler(c))
               /\ conversation_data' = [conversation_data EXCEPT ![c] = EmptyData]
               /\ user_has_images' =
                      [user_has_images EXCEPT ![c] = (content = "images")]
               /\ tasks' = [t \in TaskIds |->
                              IF t = NewTask
                              THEN [NoTask EXCEPT !.pc = "created", !.conn = c]
                              ELSE IF t = active_stream_tasks[c]
                              THEN [tasks[t] EXCEPT !.replaced = TRUE]
                              ELSE tasks[t]]
               /\ active_stream_tasks' =
                      [active_stream_tasks EXCEPT ![c] = NewTask]
    /\ UNCHANGED <<gen, non_multimodal_models, saved, pauses>>

\* the parameters chat_stream declares besides self, and the keywords of the
\* call in stream_and_persist
ChatStreamParams == {"user_input", "history", "session_id"}
CallKeywords == {"history", "session_id", "conversation_files"}
CallBinds == CallKeywords \subseteq ChatStreamParams

\* the first step of a turn task, up to its first await that suspends.  With
\* images and a model without vision an error is sent and the task returns;
\* otherwise chat_stream is called.  A call that does not bind raises
\* TypeError, which except Exception catches.  Either way the finally block
\* computes ai_response_final and awaits save_conversation.
TaskStart(t) ==
    /\ tasks[t].pc = "created" /\ ~tasks[t].cancel
    /\ \E supports_vision \in BOOLEAN :
          IF user_has_images[tasks[t].conn] /\ ~supports_vision
          THEN /\ outbox' = send_personal_message(outbox, "error", Websocket(t),
                                                  TurnTask(tasks[t].conn, t))
               /\ tasks' = [tasks EXCEPT ![t] =
                              [@ EXCEPT !.pc = "saving",
                                        !.final = FinalText(conversation_data[tasks[t].conn])]]
          ELSE /\ UNCHANGED outbox
               /\ tasks' = [tasks EXCEPT ![t] =
                              [@ EXCEPT !.pc = IF CallBinds THEN "streaming"
                                               ELSE "saving",
                                        !.final = FinalText(conversation_data[tasks[t].conn])]]
    /\ UNCHANGED <<gen, active_stream_tasks, conversation_data, user_has_images,
                   non_multimodal_models, saved, pauses>>

\* a task cancelled before its first step never runs its body
CancelledNew(t) ==
    /\ tasks[t].pc = "created" /\ tasks[t].cancel
    /\ tasks' = [tasks EXCEPT ![t] = [@ EXCEPT !.pc = "cancelled", !.cancel = FALSE]]
    /\ UNCHANGED <<gen, active_stream_tasks, outbox, conversation_data,
                   user_has_images, non_multimodal_models, saved, pauses>>

Next ==
    \/ \E c \in Conns : UserMsg(c) /\ Only("chat")
    \/ \E c \in Conns : Pause(c) /\ Only("chat")
    \/ \E t \in TaskIds : TaskStart(t) /\ Only("chat")
    \/ \E t \in TaskIds : CancelledNew(t) /\ Only("chat")
    \/ \E t \in TaskIds : SaveDone(t) /\ Only("chat")
    \/ \E t \in TaskIds : CancelledSaving(t) /\ Only("chat")

Spec == Init /\ [][Next]_vars

\* ======================================================== the claims
\* ---- C1: over a whole turn chat_stream yields ai_response_start at most
\* once, whatever the rounds produce.  Stated as written; the round-limit
\* branch yields a second start after content was streamed.
C1_AtMostOneStart == gen.n_start <= 1

\* ---- C2: once a pause has cancelled a turn whose ai_response_start was
\* delivered, the client has received an ai_response_end after that start by
\* the time the CancelledError is re-raised and the task ends.
C2_CancelledTurnIsEnded ==
    (tasks[T].reraise \/ tasks[T].pc = "cancelled")
        /\ outbox[tasks[T].conn].started
    => outbox[tasks[T].conn].ended /\ ~outbox[tasks[T].conn].open

C2_Witness ==
    /\ tasks[T].pc = "cancelled" /\ tasks[T].reraise
    /\ tasks[T].response_started
    /\ outbox[tasks[T].conn].started
    /\ gen.pc = "cancelled"

\* ---- C3: when a round that asked for N tool calls has run to the loop
\* head, it yielded N tool_start events, one tool_end or tool_error per call
\* (never both) and appended N tool-role entries, one per call.
C3_ToolProtocolComplete ==
    gen.pc = "loop_head" /\ gen.round_index > 0 =>
        LET N == Len(gen.tool_calls_check)
            Outcomes(i) == {k \in 1..Len(gen.rlog) :
                              /\ gen.rlog[k].type \in {"tool_end", "tool_error"}
                              /\ gen.rlog[k].idx = i}
            Entries(i) == {k \in 1..Len(gen.shared_history) :
                              /\ gen.shared_history[k].role = "tool"
                              /\ gen.shared_history[k].id = i}
        IN /\ N > 0
           /\ Count(gen.rlog, "tool_start") = N
           /\ Count(gen.rlog, "tool_end") + Count(gen.rlog, "tool_error") = N
           /\ \A i \in 1..N : Cardinality(Outcomes(i)) = 1
           /\ \A i \in 1..N : Cardinality(Entries(i)) = 1
           /\ Len(gen.shared_history) = N + 1

C3_Witness ==
    /\ gen.pc = "loop_head" /\ gen.round_index > 0
    /\ gen.tool_calls_check = <<"nosuch", "showtables">>
    /\ gen.raised = {2}

\* ---- C4: a turn whose ai_response_start reached the client has had an
\* ai_response_end delivered by the time its task is done.  Stated as written;
\* an error event of chat_stream after the start ends the turn without one.
C4_StartedResponseIsEnded ==
    tasks[T].pc = "done" /\ outbox[tasks[T].conn].started
    => outbox[tasks[T].conn].ended

\* ---- C5: the probe is entered at most max_rounds times; the round-limit
\* branch is reached only with all max_rounds rounds used and yields exactly
\* ai_response_start, one chunk with the fixed text and ai_response_end with no
\* model call in between; and the turn terminates: after every step, while
\* the turn is not cancelled a further step of it is possible until it is
\* done, and every step of chat_stream lowers a measure that is never
\* negative.
C5_RoundsBoundedAndTerminates ==
    [][LET Calls(g) == Len(g.tool_calls_check)
           Pending(g) == IF g.ended THEN 0 ELSE 1 + MaxChunks - g.buffered_chunks
           AtBranch == 4 + 2 * MaxCalls
           Rank(g) ==
               CASE g.pc \in {"returned", "gave_up", "failed", "cancelled"} -> 0
                 [] g.pc \in {"finalize", "gen_error"} -> 1
                 [] g.pc = "exhausted" -> 2
                 [] g.pc = "loop_head" -> 3
                 [] g.pc = "tool_wait" -> 4 + 2 * (Calls(g) - g.i)
                 [] g.pc = "tool_begin" -> 5 + 2 * (Calls(g) - g.i)
                 [] g.pc = "branch" -> AtBranch
                 [] g.pc = "retry" -> AtBranch + 1 + Pending(g)
                 [] g.pc = "probe" -> AtBranch + 3 + MaxChunks + Pending(g)
                 [] g.pc = "start" -> AtBranch + 5 + 2 * MaxChunks
           PerRound == AtBranch + 5 + 2 * MaxChunks
           Measure(g) == (max_rounds - g.round_index) * PerRound + Rank(g)
           Bounded(g) ==
               /\ g.round_index <= max_rounds
               /\ g.pc \in {"exhausted", "gave_up"} => g.round_index = max_rounds
               /\ g.pc = "exhausted" => g.rlog = <<>>
               /\ g.pc = "gave_up" => g.rlog = ExhaustedEvents
               /\ Measure(g) >= 0
           CanStep ==
               (tasks[T].pc \in {"streaming", "saving"} /\ ~tasks[T].cancel)
                   => ENABLED (\/ GenStart \/ LoopHead \/ ModelEnd
                               \/ StreamClose \/ Branch \/ ToolBegin
                               \/ ToolReturn \/ Finalize \/ Exhausted
                               \/ GenError \/ SaveDone(T))
       IN /\ Bounded(gen) /\ Bounded(gen')
          /\ CanStep'
          /\ gen' # gen => Measure(gen') < Measure(gen)]_vars

C5_Witness ==
    /\ gen.pc = "gave_up" /\ gen.round_index = max_rounds
    /\ gen.rlog = ExhaustedEvents
    /\ tasks[T].pc = "done" /\ ~tasks[T].reraise

\* ---- C6: a call whose tool raised, or whose name is not in the registry,
\* gets a tool_error event and a tool-role entry holding the error; the loop
\* goes on with the next call or the loop head, and no error event of the turn
\* is yielded in that round.
C6_ToolFailureIsContained ==
    \A i \in 1..Len(gen.tool_calls_check) :
        \/ i \in gen.raised
        \/ /\ gen.tool_calls_check[i] \notin Registry
           /\ \E k \in 1..Len(gen.rlog) : gen.rlog[k] = EvToolStart(i)
        => /\ \E k \in 1..Len(gen.rlog) : gen.rlog[k] = EvToolError(i)
           /\ \E k \in 1..Len(gen.shared_history) :
                  gen.shared_history[k] = ToolEntry(i, "err")
           /\ ~Has(gen.rlog, "error")
           /\ gen.pc \in {"tool_begin", "tool_wait", "loop_head"}

C6_Witness ==
    /\ gen.pc = "loop_head"
    /\ gen.tool_calls_check = <<"showtables", "nosuch">>
    /\ gen.raised = {1}
    /\ gen.round_index < max_rounds

\* ---- C7: in the events of a turn ai_response_start precedes every
\* ai_response_chunk, the calls are started in the order 1, 2, ... each before
\* its own tool_end or tool_error and after the outcome of the call before,
\* and a token_usage event is the last event, right after ai_response_end.
C7_EventOrder ==
    LET log == gen.rlog
        StartsBefore(k) == gen.n_start - Count(SubSeq(log, k, Len(log)),
                                               "ai_response_start")
    IN \A k \in 1..Len(log) :
        /\ log[k].type = "ai_response_chunk" => StartsBefore(k) > 0
        /\ log[k].type = "tool_start" =>
              /\ log[k].idx = Count(SubSeq(log, 1, k), "tool_start")
              /\ log[k].idx > 1 =>
                    \E j \in 1..(k - 1) :
                        /\ log[j].type \in {"tool_end", "tool_error"}
                        /\ log[j].idx = log[k].idx - 1
        /\ log[k].type \in {"tool_end", "tool_error"} =>
              \E j \in 1..(k - 1) : log[j] = EvToolStart(log[k].idx)
        /\ log[k].type = "token_usage" =>
              /\ k = Len(log) /\ k > 1 /\ log[k - 1] = EvEnd
              /\ gen.pc = "returned"

C7_Witness ==
    /\ gen.pc = "returned" /\ gen.round_index > 1
    /\ gen.rlog = <<EvChunk("delta"), EvEnd, EvUsage>>

\* ---- C8: every turn task that is running, and that no pause has cancelled,
\* is the task active_stream_tasks holds for its connection.  Stated as
\* written; a second user message on the connection replaces the entry of the
\* task that is still running.
C8_RunningTasksStayTracked ==
    \A t \in TaskIds :
        /\ tasks[t].pc \in {"created", "streaming", "saving"}
        /\ ~tasks[t].cancel /\ ~tasks[t].reraise
        => active_stream_tasks[tasks[t].conn] = t

\* ---- C9: a pause on connection c, received while a task that c started
\* is running and not yet cancelled, cancels that task and leaves it out of
\* active_stream_tasks.  Stated for connections on which no entry of
\* active_stream_tasks was ever replaced by a later task, so that it fails
\* only through the interleaving the claim names: the cleanup of a task
\* cancelled earlier removes the entry of the task created after the pause.
C9_PauseCancelsRunningTask ==
    [][\A c \in Conns :
          /\ Pause(c)
          /\ \A u \in TaskIds : tasks[u].conn = c => ~tasks[u].replaced
          => \A t \in TaskIds :
                 /\ tasks[t].conn = c
                 /\ tasks[t].pc \in {"created", "streaming", "saving"}
                 /\ ~tasks[t].cancel
                 => tasks'[t].cancel /\ active_stream_tasks'[c] # t]_vars

MaxExternal == 3

\* the characters the pattern [a-zA-Z0-9_-] accepts
LegalChars ==
    {"a", "b", "c", "d", "e", "f", "g", "h", "i", "j", "k", "l", "m",
     "n", "o", "p", "q", "r", "s", "t", "u", "v", "w", "x", "y", "z",
     "A", "B", "C", "D", "E", "F", "G", "H", "I", "J", "K", "L", "M",
     "N", "O", "P", "Q", "R", "S", "T", "U", "V", "W", "X", "Y", "Z",
     "0", "1", "2", "3", "4", "5", "6", "7", "8", "9", "_", "-"}

\* ^[A-Za-z0-9_-]+$
IsLegalName(name) ==
    Len(name) > 0 /\ \A i \in 1..Len(name) : name[i] \in LegalChars

\* re.sub(r"[^a-zA-Z0-9_-]", "_", name), then "tool" for an empty result
Sanitized(name) ==
    LET sub == [i \in 1..Len(name) |->
                   IF name[i] \in LegalChars THEN name[i] ELSE "_"]
    IN IF sub = <<>> THEN <<"t", "o", "o", "l">> ELSE sub

\* a faulty variant: returns the sanitized name whether or not it is in use
sanitize_only(name, used) == Sanitized(name)

\* _sanitize_and_uniq_tool_name: the returned name (the caller's state
\* self._used_tool_names gains it).  Decimal is str(index); FirstFree is the
\* loop "while sanitized in self._used_tool_names".
sanitize_and_uniq_tool_name(name, used) ==
    LET digit == <<"0", "1", "2", "3", "4", "5", "6", "7", "8", "9">>
        RECURSIVE Decimal(_)
        Decimal(n) ==
            IF n < 10 THEN <<digit[n + 1]>>
            ELSE Decimal(n \div 10) \o <<digit[(n % 10) + 1]>>
        base == Sanitized(name)
        RECURSIVE FirstFree(_, _)
        FirstFree(index, sanitized) ==
            IF sanitized \in used
            THEN FirstFree(index + 1, base \o <<"_">> \o Decimal(index + 1))
            ELSE sanitized
    IN FirstFree(1, base)

\* the names of the tools the local factories create, in their order
local_tools ==
    [medical |->
       << <<"m","e","d","i","c","a","l","_","q","u","e","r","y">>,
          <<"s","h","o","w","t","a","b","l","e","s">>,
          <<"d","e","s","c","r","i","p","t","t","a","b","l","e","s">>,
          <<"p","a","t","i","e","n","t","_","c","o","u","n","t","_",
            "s","t","a","t","s">>,
          <<"a","d","v","e","r","s","e","_","e","v","e","n","t","_",
            "a","n","a","l","y","s","i","s">> >>,
     basic |->
       << <<"p","r","e","v","i","e","w","_","u","p","l","o","a","d","e","d",
            "_","f","i","l","e">> >>,
     md |->
       << <<"s","h","o","w","_","p","d","f">>,
          <<"p","d","f","_","t","o","_","m","a","r","k","d","o","w","n">> >>]

\* names an external server may give its tools: empty, with characters
\* outside the pattern, legal, ending like a suffix, and the name of a local
\* tool
RawNames ==
    { <<>>,
      <<"a", " ", "b">>,
      <<"a", ".", "b">>,
      <<"a", "_", "b">>,
      <<"a", "_", "b", "_", "2">>,
      local_tools.medical[2] }

\* the loop over one server's tools (lines 145-158): every name goes through
\* _sanitize_and_uniq_tool_name and the tool is renamed to the result
RECURSIVE SanitizeAll(_, _, _)
SanitizeAll(server_tools, used, calls) ==
    IF server_tools = <<>> THEN [used |-> used, calls |-> calls]
    ELSE LET original_name == Head(server_tools)
             sanitized == sanitize_and_uniq_tool_name(original_name, used)
         IN SanitizeAll(Tail(server_tools), used \cup {sanitized},
                        Append(calls, [raw |-> original_name,
                                       name |-> sanitized]))

\* the external servers of the configuration, in the order of the loop
server_configs == <<"server_a", "server_b">>

\* one source of self.tools_by_server
Source(source, source_tools, raised) ==
    [source |-> source, tools |-> source_tools, raised |-> raised]

\* one server of the loop of _fetch_external_tools, when get_tools returns
\* server_tools
FetchReturns(server_tools) ==
    /\ Len(sanitize_calls) + Len(server_tools) <= MaxExternal
    /\ LET r == SanitizeAll(server_tools, used_tool_names, <<>>)
           sanitized_tools == [i \in 1..Len(r.calls) |-> r.calls[i].name]
       IN /\ tools' = tools \o sanitized_tools
          /\ used_tool_names' = r.used
          /\ sanitize_calls' = sanitize_calls \o r.calls
          /\ tools_by_server' =
                Append(tools_by_server,
                       Source(server_configs[Len(tools_by_server) + 1],
                              sanitized_tools, FALSE))

\* a faulty variant: the exception of get_tools leaves the loop and
\* initialize_mcp_tools returns False
FetchServerAborting ==
    /\ init_pc \in {"new", "fetch"}
    /\ Len(tools_by_server) < Len(server_configs)
    /\ \/ /\ \E server_tools \in
                  UNION {[1..n -> RawNames] : n \in 0..MaxExternal} :
                  FetchReturns(server_tools)
          /\ init_pc' = "fetch"
       \/ /\ tools_by_server' =
                Append(tools_by_server,
                       Source(server_configs[Len(tools_by_server) + 1],
                              <<>>, TRUE))
          /\ init_pc' = "failed"
          /\ UNCHANGED <<tools, used_tool_names, sanitize_calls>>

\* _fetch_external_tools, one server of the loop: get_tools returns the
\* server's tools, or raises (a timeout, a refused connection, a malformed
\* response) and the except of the loop body gives the server no tools
FetchServer ==
    /\ init_pc \in {"new", "fetch"}
    /\ Len(tools_by_server) < Len(server_configs)
    /\ \/ \E server_tools \in
               UNION {[1..n -> RawNames] : n \in 0..MaxExternal} :
               FetchReturns(server_tools)
       \/ /\ tools_by_server' =
                Append(tools_by_server,
                       Source(server_configs[Len(tools_by_server) + 1],
                              <<>>, TRUE))
          /\ UNCHANGED <<tools, used_tool_names, sanitize_calls>>
    /\ init_pc' = "fetch"

\* initialize_mcp_tools after the external servers (none may be configured):
\* _inject_local_tools, then _inject_basic_tools with the basic and the
\* markdown tools.  Each factory runs under its own try; its tools are
\* appended as created, or not at all when it raises.
InjectTools ==
    /\ init_pc \in {"new", "fetch"}
    /\ \E medical \in BOOLEAN, basic \in BOOLEAN, md \in BOOLEAN :
          /\ tools' = tools \o (IF medical THEN local_tools.medical ELSE <<>>)
                            \o (IF basic THEN local_tools.basic ELSE <<>>)
                            \o (IF md THEN local_tools.md ELSE <<>>)
          /\ tools_by_server' = tools_by_server \o
                << Source("__local__",
                          IF medical THEN local_tools.medical ELSE <<>>,
                          ~medical),
                   Source("__basic__",
                          IF basic THEN local_tools.basic ELSE <<>>, ~basic),
                   Source("__markdown__",
                          IF md THEN local_tools.md ELSE <<>>, ~md) >>
    /\ init_pc' = "done"
    /\ UNCHANGED <<used_tool_names, sanitize_calls>>

NextTools ==
    \/ FetchServer /\ Only("tools")
    \/ InjectTools /\ Only("tools")

SpecTools == Init /\ [][NextTools]_allvars

\* ---- C11: once initialize_mcp_tools has returned, no two tools of
\* self.tools have the same name.  Stated as written; the local tools are
\* appended without a look at the names the external tools were given.
C11_RegistryNamesUnique ==
    init_pc = "done" =>
        \A i \in 1..Len(tools), j \in 1..Len(tools) :
            i # j => tools[i] # tools[j]

\* ---- C12 as written: over the calls of _sanitize_and_uniq_tool_name made so
\* far, a raw name that matches the pattern is returned unchanged, two
\* distinct raw names with the same sanitized form get distinct names, and
\* every returned name matches the pattern.
C12_LegalNameUnchanged ==
    \A k \in 1..Len(sanitize_calls) :
        /\ IsLegalName(sanitize_calls[k].raw) =>
              sanitize_calls[k].name = sanitize_calls[k].raw
        /\ IsLegalName(sanitize_calls[k].name)
        /\ \A j \in 1..(k - 1) :
              /\ sanitize_calls[j].raw # sanitize_calls[k].raw
              /\ Sanitized(sanitize_calls[j].raw) = Sanitized(sanitize_calls[k].raw)
              => sanitize_calls[j].name # sanitize_calls[k].name

\* ---- C12 amended: a raw name that matches the pattern and that no earlier
\* call returned is returned unchanged; the names returned by any two calls
\* differ, so two raw names with the same sanitized form get distinct names;
\* every returned name matches the pattern; and each returned name is the one
\* the function computes from the raw names of the earlier calls alone.
C12_UniqueLegalNames ==
    \A k \in 1..Len(sanitize_calls) :
        LET earlier == {sanitize_calls[j].name : j \in 1..(k - 1)}
            raw == sanitize_calls[k].raw
            name == sanitize_calls[k].name
        IN /\ (IsLegalName(raw) /\ raw \notin earlier) => name = raw
           /\ IsLegalName(name)
           /\ name \notin earlier
           /\ name \in used_tool_names
           /\ SubSeq(sanitize_calls, 1, k) =
                 SanitizeAll([i \in 1..k |-> sanitize_calls[i].raw], {}, <<>>).calls

C12_Witness ==
    \E j \in 1..Len(sanitize_calls), k \in 1..Len(sanitize_calls) :
        /\ j < k
        /\ sanitize_calls[j].raw # sanitize_calls[k].raw
        /\ Sanitized(sanitize_calls[j].raw) = Sanitized(sanitize_calls[k].raw)
        /\ IsLegalName(sanitize_calls[k].raw)
        /\ sanitize_calls[k].name # sanitize_calls[k].raw
        /\ \E i \in 1..Len(sanitize_calls) :
              /\ IsLegalName(sanitize_calls[i].raw)
              /\ sanitize_calls[i].name = sanitize_calls[i].raw

\* ============================================== build_shared_history
\* MessageProcessor (backend/mcp_modules/message_processor.py).  An
\* attachment is known by what the loop finds it to be: "image" (an image
\* name whose url resolves), "file" (not an image name), "nourl" (empty url),
\* "unresolved" (build_image_url_from_relative returns None) or "malformed"
\* (not a mapping: att.get raises).
history_images_max_total == 6
history_images_max_per_record == 3
MaxHistory == 4

\* persisted turns: with and without text, answer and tool results, and with
\* the attachment lists that exercise the loop
Records ==
    {[user_input |-> text, attachments |-> atts, mcp_results |-> FALSE,
      ai_response |-> TRUE] :
        text \in BOOLEAN,
        atts \in {<<>>, <<"image", "image", "image", "image">>}}
    \cup {[user_input |-> TRUE, mcp_results |-> FALSE, ai_response |-> FALSE,
           attachments |-> <<"file", "image", "nourl", "image", "unresolved">>],
          [user_input |-> FALSE, mcp_results |-> TRUE, ai_response |-> TRUE,
           attachments |-> <<"image", "malformed", "image">>],
          [user_input |-> TRUE, mcp_results |-> TRUE, ai_response |-> FALSE,
           attachments |-> <<"file">>]}

\* a faulty variant of the per-record test: one image too many
PerRecordReachedLate(per_record) ==
    per_record > history_images_max_per_record

\* "if per_record >= self.history_images_max_per_record: break"
PerRecordReached(per_record) ==
    per_record >= history_images_max_per_record

\* a faulty variant: the answer of a turn before the summary of its tools
AnswerFirst(tool_entries, answer) == answer \o tool_entries

\* the summary of the tool results of a turn (message_processor.py:88-98) is
\* appended before its answer (103-104)
ReplayOrder(tool_entries, answer) == tool_entries \o answer

\* build_shared_history(history, user_input, force_text_only), from record k
\* on with injected_images_total, appending to acc.  An entry keeps its role,
\* the turn it comes from (0 for the new input) and its content: the parts
\* of a list content, or the kind of a text content.  user_input is a
\* string (list FALSE) or a list of content parts.
RECURSIVE build_shared_history(_, _, _, _, _, _)
build_shared_history(hist, user_input, force_text_only, k, injected_images_total, acc) ==
    IF k > Len(hist)
    THEN Append(acc, IF user_input.list
                     THEN [role |-> "user", turn |-> 0,
                           parts |-> user_input.parts, text |-> ""]
                     ELSE [role |-> "user", turn |-> 0, parts |-> <<>>,
                           text |-> "user_input"])
    ELSE
    LET record == hist[k]
        attachments == record.attachments
        text_parts == IF record.user_input THEN <<"text">> ELSE <<>>
        \* the loop over the attachments: the image parts appended, from
        \* attachment i on with per_record images appended so far
        RECURSIVE Inject(_, _)
        Inject(i, per_record) ==
            IF \/ i > Len(attachments)
               \/ injected_images_total + per_record >= history_images_max_total
               \/ PerRecordReached(per_record)
               \/ attachments[i] = "malformed"
            THEN per_record
            ELSE IF attachments[i] = "image" THEN Inject(i + 1, per_record + 1)
                 ELSE Inject(i + 1, per_record)
        images ==
            IF /\ ~force_text_only
               /\ attachments # <<>>
               /\ injected_images_total < history_images_max_total
            THEN Inject(1, 0)
            ELSE 0
        content_parts == text_parts \o [i \in 1..images |-> "image_url"]
        note == /\ attachments # <<>>
                /\ \A i \in 1..Len(attachments) : attachments[i] # "malformed"
        user_entry ==
            IF content_parts # <<>>
            THEN [role |-> "user", turn |-> k, parts |-> content_parts,
                  text |-> ""]
            ELSE [role |-> "user", turn |-> k, parts |-> <<>>,
                  text |-> IF note THEN "attachments_note" ELSE ""]
        tool_entries ==
            IF record.mcp_results
            THEN <<[role |-> "assistant", turn |-> k, parts |-> <<>>,
                    text |-> "tool_results"]>>
            ELSE <<>>
        answer ==
            IF record.ai_response
            THEN <<[role |-> "assistant", turn |-> k, parts |-> <<>>,
                    text |-> "ai_response"]>>
            ELSE <<>>
    IN build_shared_history(hist, user_input, force_text_only, k + 1,
                            injected_images_total + images,
                            (acc \o <<user_entry>>)
                                \o ReplayOrder(tool_entries, answer))

\* chat_stream calls build_shared_history (mcp_agent.py:329) with the turns
\* get_chat_history returned, oldest first
BuildHistory ==
    /\ shared_history = <<>>
    /\ \E hist \in UNION {[1..n -> Records] : n \in 0..MaxHistory},
          user_input \in {[list |-> FALSE, parts |-> <<>>],
                          [list |-> TRUE, parts |-> <<"text", "image_url">>]},
          force_text_only \in BOOLEAN :
          /\ history' = hist
          /\ built' = [user_input |-> user_input,
                       force_text_only |-> force_text_only]
          /\ shared_history' =
                build_shared_history(hist, user_input, force_text_only, 1, 0,
                                     <<>>)

NextHistory ==
    \/ BuildHistory /\ Only("history")

SpecHistory == Init /\ [][NextHistory]_allvars

\* ---- C13: the list build_shared_history returns holds at most
\* history_images_max_per_record image parts from any one persisted turn and
\* at most history_images_max_total in all; the images are taken greedily,
\* oldest turn first (a turn gets as many of its resolvable images as both
\* limits still allow); four turns with four resolvable images each give
\* exactly 6 image parts, 3 and 3; and every turn that has text has its text
\* in its user entry.
C13_HistoryImageLimits ==
    shared_history # <<>> =>
    LET UserEntry(k) ==
            CHOOSE e \in {shared_history[i] : i \in 1..Len(shared_history)} :
                e.role = "user" /\ e.turn = k
        Images(k) ==
            Cardinality({i \in 1..Len(UserEntry(k).parts) :
                            UserEntry(k).parts[i] = "image_url"})
        RECURSIVE Total(_)
        Total(k) == IF k = 0 THEN 0 ELSE Total(k - 1) + Images(k)
        \* the resolvable images of turn k the loop can get to
        Qualifying(k) ==
            LET atts == history[k].attachments
                stop == {i \in 1..Len(atts) : atts[i] = "malformed"}
            IN Cardinality({i \in 1..Len(atts) :
                               /\ atts[i] = "image"
                               /\ \A j \in stop : i < j})
        Min(a, b) == IF a < b THEN a ELSE b
        four == <<"image", "image", "image", "image">>
    IN /\ \A k \in 1..Len(history) :
              /\ \E i \in 1..Len(shared_history) :
                    shared_history[i].role = "user" /\ shared_history[i].turn = k
              /\ Images(k) <= history_images_max_per_record
              /\ Images(k) \in
                    {0, Min(Qualifying(k),
                            Min(history_images_max_per_record,
                                history_images_max_total - Total(k - 1)))}
              /\ history[k].user_input => "text" \in
                    {UserEntry(k).parts[i] : i \in 1..Len(UserEntry(k).parts)}
       /\ Total(Len(history)) <= history_images_max_total
       /\ (\E k \in 1..Len(history) : Images(k) > 0) =>
             \A k \in 1..Len(history) :
                 Images(k) = Min(Qualifying(k),
                                 Min(history_images_max_per_record,
                                     history_images_max_total - Total(k - 1)))
       /\ /\ Len(history) = 4
          /\ \A k \in 1..4 : history[k].attachments = four
          /\ Images(1) > 0
          => /\ Total(4) = 6
             /\ <<Images(1), Images(2), Images(3), Images(4)>> = <<3, 3, 0, 0>>

C13_Witness ==
    /\ Len(history) = 4
    /\ \A k \in 1..4 :
          /\ history[k].attachments = <<"image", "image", "image", "image">>
          /\ history[k].user_input
    /\ Cardinality({i \in 1..Len(shared_history) :
                       "image_url" \in {shared_history[i].parts[j] :
                                           j \in 1..Len(shared_history[i].parts)}})
          = 2
    /\ Len(shared_history) = 9

\* ======================================================= the database
\* ChatDatabase (backend/database.py).  A thread is a pair <<session_id,
\* conversation_id>>; a turn is a row of chat_records with its id, thread,
\* created_at, attachments and input; a row of chat_conversation_files has a
\* thread, url, filename ("" for NULL) and first_seen_at.  created_at is
\* the clock at the insert, so the order by created_at is the order by id.
MaxRecords == 2
MaxClock == 1

Threads == {<<"s1", 1>>, <<"s1", 2>>, <<"s2", 1>>}

\* the attachments of a turn: the same url under two filenames, a url with
\* no filename and a filename with no url, or none
AttachmentLists ==
    { <<>>,
      <<[url |-> "/uploads/a", filename |-> "a.png"]>>,
      <<[url |-> "/uploads/a", filename |-> "b.png"]>>,
      <<[url |-> "/uploads/c", filename |-> ""],
        [url |-> "", filename |-> "d.png"]>> }

\* the rows of a set in the order "ORDER BY created_at ASC"
RECURSIVE Ordered(_)
Ordered(rows) ==
    IF rows = {} THEN <<>>
    ELSE LET first == CHOOSE r \in rows : \A q \in rows : r.id <= q.id
         IN <<first>> \o Ordered(rows \ {first})

Turns(thread) == {r \in chat_records : r.thread = thread}

\* register_conversation_files: INSERT OR IGNORE of every attachment that has
\* a url, then, for one that has a filename, the UPDATE of the filename
RECURSIVE register_conversation_files(_, _, _, _)
register_conversation_files(files, thread, attachments, now) ==
    IF attachments = <<>> THEN files
    ELSE LET item == Head(attachments)
             present == \E f \in files : f.thread = thread /\ f.url = item.url
             inserted ==
                 IF present THEN files
                 ELSE files \cup {[thread |-> thread, url |-> item.url,
                                   filename |-> item.filename,
                                   first_seen_at |-> now]}
             updated ==
                 IF item.filename = "" THEN inserted
                 ELSE {IF f.thread = thread /\ f.url = item.url
                       THEN [f EXCEPT !.filename = item.filename] ELSE f :
                       f \in inserted}
         IN register_conversation_files(
                IF item.url = "" THEN files ELSE updated,
                thread, Tail(attachments), now)

\* the scan of rebuild_conversation_files (lines 435-463): the turns of the
\* thread are read oldest first and the first attachment seen with a url
\* gives the entry of that url (seen[url]), with the filename of that
\* attachment and the created_at of its turn
SeenFiles(records, thread) ==
    LET turns == Ordered({r \in records : r.thread = thread})
        RECURSIVE Scan(_, _, _)
        \* seen, as rows, after the attachments from j on of turn k and the
        \* turns after it
        Scan(k, j, seen) ==
            IF k > Len(turns) THEN seen
            ELSE IF j > Len(turns[k].attachments) THEN Scan(k + 1, 1, seen)
            ELSE LET item == turns[k].attachments[j]
                 IN IF item.url = "" \/ \E f \in seen : f.url = item.url
                    THEN Scan(k, j + 1, seen)
                    ELSE Scan(k, j + 1, seen \cup
                             {[thread |-> thread, url |-> item.url,
                               filename |-> item.filename,
                               first_seen_at |-> turns[k].created_at]})
    IN Scan(1, 1, {})

\* a faulty variant: the rows are inserted without first_seen_at and get
\* the column's default, the time of the rebuild
rebuild_stamped_now(records, files, thread, now) ==
    {f \in files : f.thread # thread}
    \cup {[f EXCEPT !.first_seen_at = now] : f \in SeenFiles(records, thread)}

\* rebuild_conversation_files: the rows of the thread are deleted and one
\* row is inserted for every entry of seen
rebuild_conversation_files(records, files, thread, now) ==
    {f \in files : f.thread # thread} \cup SeenFiles(records, thread)

\* save_conversation with a conversation_id, as the finally block of a turn
\* task calls it: the INSERT (the id is the next AUTOINCREMENT value), then
\* register_conversation_files
save_conversation(thread, attachments, user_input) ==
    /\ next_id <= MaxRecords
    /\ chat_records' = chat_records \cup
          {[id |-> next_id, thread |-> thread, created_at |-> db_now,
            attachments |-> attachments, user_input |-> user_input]}
    /\ next_id' = next_id + 1
    /\ conversation_files' =
          register_conversation_files(conversation_files, thread,
                                      attachments, db_now)
    /\ rebuilds' = [thread |-> <<>>, times |-> 0]
    /\ UNCHANGED db_now

\* the turn of a user_msg is saved (main.py:354)
SaveTurn ==
    /\ \E thread \in Threads, attachments \in AttachmentLists :
          save_conversation(thread, attachments, "user_msg")
    /\ UNCHANGED <<edit_task, fetched>>

\* delete_records_after: DELETE ... AND id >= ?, then
\* rebuild_conversation_files
delete_records_after(thread, from_id_inclusive) ==
    /\ chat_records' = {r \in chat_records :
                           ~(r.thread = thread /\ r.id >= from_id_inclusive)}
    /\ conversation_files' =
          rebuild_conversation_files(chat_records', conversation_files,
                                     thread, db_now)
    /\ rebuilds' =
          IF chat_records' = chat_records /\ rebuilds.thread = thread
          THEN [rebuilds EXCEPT !.times = IF @ < 2 THEN @ + 1 ELSE @]
          ELSE [thread |-> thread, times |-> 1]
    /\ UNCHANGED <<next_id, db_now>>

\* delete_conversation (DELETE /api/threads)
DeleteConversation ==
    /\ \E thread \in Threads :
          /\ chat_records' = {r \in chat_records : r.thread # thread}
          /\ conversation_files' =
                {f \in conversation_files : f.thread # thread}
    /\ rebuilds' = [thread |-> <<>>, times |-> 0]
    /\ UNCHANGED <<next_id, db_now, edit_task, fetched>>

\* a faulty variant: the branch of clear_history for an empty session id,
\* which empties the tables
ClearHistoryOfAll ==
    /\ chat_records' = {}
    /\ conversation_files' = {}
    /\ rebuilds' = [thread |-> <<>>, times |-> 0]
    /\ UNCHANGED <<next_id, db_now, edit_task, fetched>>

\* clear_history(session_id) (DELETE /api/history)
ClearHistory ==
    /\ \E session_id \in {t[1] : t \in Threads} :
          /\ chat_records' = {r \in chat_records : r.thread[1] # session_id}
          /\ conversation_files' =
                {f \in conversation_files : f.thread[1] # session_id}
    /\ rebuilds' = [thread |-> <<>>, times |-> 0]
    /\ UNCHANGED <<next_id, db_now, edit_task, fetched>>

\* a second passes
Tick ==
    /\ db_now < MaxClock
    /\ db_now' = db_now + 1
    /\ UNCHANGED <<chat_records, conversation_files, next_id, rebuilds,
                   edit_task, fetched>>

\* the replay_edit handler (main.py:418-573) with a complete message: the
\* thread is truncated and its file index rebuilt, then the task of the new
\* turn is created.  One such task is followed at a time.
ReplayEdit(thread, from_record_id) ==
    /\ edit_task.pc # "created"
    /\ next_id <= MaxRecords
    /\ delete_records_after(thread, from_record_id)
    /\ edit_task' = [pc |-> "created", thread |-> thread]
    /\ UNCHANGED fetched

\* stream_and_persist_edit runs: the call of chat_stream raises or its
\* events are consumed, and the finally block saves the turn of the new
\* input with attachments=[{"filename": "(edited)"}]
EditTaskRun ==
    /\ edit_task.pc = "created"
    /\ save_conversation(edit_task.thread,
                         <<[url |-> "", filename |-> "(edited)"]>>,
                         "new_user_input")
    /\ edit_task' = [edit_task EXCEPT !.pc = "done"]
    /\ UNCHANGED fetched

\* a pause is handled before the task has run: handle_pause cancels it and
\* a task cancelled before its first step never enters its try block
EditTaskCancelled ==
    /\ edit_task.pc = "created"
    /\ edit_task' = [edit_task EXCEPT !.pc = "cancelled"]
    /\ UNCHANGED <<chat_records, conversation_files, next_id, db_now,
                   rebuilds, fetched>>

\* get_chat_history(session_id, limit, conversation_id); conversation_id 0
\* stands for None.  The ids of the returned records, in their order.
get_chat_history(session_id, limit, conversation_id) ==
    LET Reverse(q) == [i \in 1..Len(q) |-> q[Len(q) + 1 - i]]
        thread_rows ==
            Ordered(Turns(<<session_id, conversation_id>>))
        \* ORDER BY created_at DESC LIMIT ?
        newest == Reverse(Ordered({r \in chat_records :
                                      r.thread[1] = session_id}))
        limited == SubSeq(newest, 1,
                          IF Len(newest) < limit THEN Len(newest) ELSE limit)
        \* ... ORDER BY created_at ASC
        session_rows == Ordered({limited[i] : i \in 1..Len(limited)})
        records == IF conversation_id # 0 THEN thread_rows ELSE session_rows
        ids == [i \in 1..Len(records) |-> records[i].id]
    IN IF conversation_id = 0 THEN Reverse(ids) ELSE ids

\* a caller reads the history (main.py:237, 472, 677, 803)
GetChatHistory ==
    /\ \E session_id \in {t[1] : t \in Threads},
          conversation_id \in {0} \cup {t[2] : t \in Threads},
          limit \in 1..MaxRecords :
          fetched' = [thread |-> <<session_id, conversation_id>>,
                      limit |-> limit,
                      ids |-> get_chat_history(session_id, limit,
                                               conversation_id)]
    /\ UNCHANGED <<chat_records, conversation_files, next_id, db_now,
                   rebuilds, edit_task>>

NextDb ==
    \/ SaveTurn /\ Only("db")
    \/ \E thread \in Threads, from_record_id \in 1..(MaxRecords + 1) :
          ReplayEdit(thread, from_record_id) /\ Only("db")
    \/ EditTaskRun /\ Only("db")
    \/ EditTaskCancelled /\ Only("db")
    \/ DeleteConversation /\ Only("db")
    \/ ClearHistory /\ Only("db")
    \/ Tick /\ Only("db")

SpecDb == Init /\ [][NextDb]_allvars

NextRead ==
    \/ SaveTurn /\ Only("db")
    \/ DeleteConversation /\ Only("db")
    \/ GetChatHistory /\ Only("db")

SpecRead == Init /\ [][NextRead]_allvars

\* start_conversation(session_id): SELECT COALESCE(MAX(conversation_id), 0)
\* + 1 FROM chat_records WHERE session_id = ?; nothing is inserted
start_conversation(session_id) ==
    LET ids == {r.thread[2] : r \in {q \in chat_records :
                                        q.thread[1] = session_id}}
    IN IF ids = {} THEN 1
       ELSE 1 + (CHOOSE m \in ids : \A i \in ids : i <= m)

\* a thread is begun (main.py:223, database.py:194)
StartConversation ==
    /\ Len(started_threads) <= MaxRecords
    /\ \E session_id \in {t[1] : t \in Threads} :
          started_threads' =
             Append(started_threads,
                    <<session_id, start_conversation(session_id)>>)
    /\ UNCHANGED dbvars

NextConv ==
    \/ StartConversation /\ Only("conversations")
    \/ SaveTurn /\ Only("db")
    \/ DeleteConversation /\ Only("db")

SpecConv == Init /\ [][NextConv]_allvars

\* ---- C14: a rebuild of a thread's file index that follows a rebuild of
\* the same thread, with no change of the turn log in between, leaves the
\* rows (url, filename, first_seen_at) of the index as they were, and the
\* index has one row per url of the thread.
C14_RebuildIdempotent ==
    [][\A thread \in Threads :
          /\ \E from_record_id \in 1..(MaxRecords + 1) :
                ReplayEdit(thread, from_record_id)
          /\ chat_records' = chat_records
          /\ rebuilds.thread = thread
          => /\ conversation_files' = conversation_files
             /\ \A f \in conversation_files', g \in conversation_files' :
                   f.thread = g.thread /\ f.url = g.url => f = g]_allvars

C14_Witness ==
    /\ rebuilds.times = 2
    /\ \E f \in conversation_files :
          /\ f.thread = rebuilds.thread
          /\ f.first_seen_at < db_now

\* ---- C15: for every thread, the (url, filename) pairs of the file index
\* kept by register_conversation_files are the pairs of the index that
\* rebuild_conversation_files computes from the turns the thread has now.
\* Stated as written; the two disagree on the filename of a url that turns
\* attach under different filenames.
C15_IndexIsViewOfLog ==
    \A thread \in Threads :
        LET Pairs(files) == {<<f.url, f.filename>> :
                                f \in {g \in files : g.thread = thread}}
        IN Pairs(conversation_files) =
           Pairs(rebuild_conversation_files(chat_records, conversation_files,
                                            thread, db_now))

\* ---- C16: a replay_edit on a thread with from_record_id k removes exactly
\* the turns of that thread with id >= k, leaves every other turn, leaves
\* the file index with rows only for urls of the remaining turns, and the
\* task it creates ends with exactly one new turn, made from the new input,
\* as the last turn of the thread.  Stated as written; a task cancelled
\* before it runs ends with no new turn.
C16_ReplayEditEffect ==
    [][/\ \A thread \in Threads, k \in 1..(MaxRecords + 1) :
             ReplayEdit(thread, k) =>
                /\ chat_records' =
                      {r \in chat_records : r.thread # thread \/ r.id < k}
                /\ \A f \in conversation_files' :
                      IF f.thread = thread
                      THEN \E r \in chat_records' :
                              /\ r.thread = thread
                              /\ \E i \in 1..Len(r.attachments) :
                                    r.attachments[i].url = f.url
                      ELSE f \in conversation_files
                /\ \A f \in conversation_files :
                      f.thread # thread => f \in conversation_files'
       /\ edit_task.pc = "created" /\ edit_task'.pc # "created" =>
             \E r \in chat_records' :
                /\ r \notin chat_records
                /\ chat_records' = chat_records \cup {r}
                /\ r.thread = edit_task.thread
                /\ r.user_input = "new_user_input"
                /\ \A q \in chat_records : q.id < r.id]_allvars

\* ---- C17: get_chat_history returns the turns oldest first in both modes:
\* with a conversation_id all the turns of the thread, without one the
\* `limit` most recent turns of the session.  Stated as written; without a
\* conversation_id the rows, already ordered oldest first by the query, are
\* reversed.
C17_HistoryOldestFirst ==
    LET ids == fetched.ids
        session_id == fetched.thread[1]
        in_session == {r.id : r \in {q \in chat_records :
                                        q.thread[1] = session_id}}
    IN fetched.limit # 0 =>
          /\ \A i \in 1..Len(ids), j \in 1..Len(ids) : i < j => ids[i] < ids[j]
          /\ {ids[i] : i \in 1..Len(ids)} =
                IF fetched.thread[2] # 0
                THEN {r.id : r \in Turns(fetched.thread)}
                ELSE {a \in in_session :
                         Cardinality({b \in in_session : b > a})
                            < fetched.limit}

\* ================================================ the session contexts
\* websocket_chat (backend/main.py), handle_resume_conversation
\* (backend/app_main/ws_handlers.py), the model choice of chat_stream and the
\* local medical tools (backend/medicaltool.py).  A value that may be None
\* is a sequence: <<>> for None, <<v>> for v.
SessionIds == DOMAIN session_contexts

\* llm_profiles: the profile ids configured, "default" among them
llm_profiles == {"default", "m2"}

\* get_or_create_llm_instances: the profile a model id selects
ProfileOf(model) == IF model \in llm_profiles THEN model ELSE "default"

\* the connection is accepted (main.py:110-157): an msid parameter that
\* int() accepts is recorded, any other leaves the context without msid; a
\* model parameter is recorded
Connect(c) ==
    /\ ~session_contexts[c].connected
    /\ \E msid_param \in {"None", "", "abc", "7"},
          model_param \in {"None", "", "m2"} :
          session_contexts' = [session_contexts EXCEPT ![c] =
              [@ EXCEPT !.connected = TRUE,
                        !.msid = IF msid_param = "7" THEN <<7>> ELSE <<>>,
                        !.model = IF model_param = "m2" THEN "m2" ELSE ""]]
    /\ outcome' = [type |-> "session_info", accesses |-> <<>>]
    /\ UNCHANGED turn

\* handle_resume_conversation.  conversation_id is None, an integer, a
\* string of digits or another string; int() raises on the last.  The
\* context is the dictionary stored in session_contexts, so an assignment
\* made before an exception stays.
handle_resume_conversation(c, session_id, conversation_id) ==
    LET target_session == IF session_id = "  " THEN "" ELSE session_id
        ctx == session_contexts[c]
    IN /\ session_contexts[c].connected
       /\ IF target_session = "" \/ conversation_id.kind = "none"
          THEN /\ outcome' = [type |-> "resume_error", accesses |-> <<>>]
               /\ UNCHANGED session_contexts
          ELSE IF conversation_id.kind = "text"
          THEN /\ session_contexts' = [session_contexts EXCEPT ![c] =
                      [ctx EXCEPT !.effective_session_id = target_session]]
               /\ outcome' = [type |-> "resume_error", accesses |-> <<>>]
          ELSE /\ session_contexts' = [session_contexts EXCEPT ![c] =
                      [ctx EXCEPT !.effective_session_id = target_session,
                                  !.effective_conversation_id =
                                      <<conversation_id.n>>]]
               /\ outcome' = [type |-> "resume_ok", accesses |-> <<>>,
                              to |-> c, session_id |-> target_session,
                              conversation_id |-> conversation_id.n]
       /\ UNCHANGED turn

\* the switch_model handler (main.py:392-417)
SwitchModel(c, model) ==
    /\ session_contexts[c].connected
    /\ IF model = ""
       THEN /\ outcome' = [type |-> "model_switch_error", accesses |-> <<>>]
            /\ UNCHANGED session_contexts
       ELSE /\ session_contexts' =
                  [session_contexts EXCEPT ![c].model = model]
            /\ outcome' = [type |-> "model_switched", accesses |-> <<>>]
    /\ UNCHANGED turn

\* chat_stream starts for a turn of connection c (mcp_agent.py:313-329): the
\* profile is read from the session context and the llm instances of that
\* profile become locals of the generator
ChatStreamStart(c) ==
    /\ session_contexts[c].connected
    /\ turn.pc = "idle"
    /\ turn' = [pc |-> "running", session_id |-> c,
                model_at_start |-> session_contexts[c].model,
                profile |-> ProfileOf(session_contexts[c].model),
                used |-> ""]
    /\ outcome' = [type |-> "status", accesses |-> <<>>]
    /\ UNCHANGED session_contexts

\* a faulty variant: the round looks the profile up in the session context
RoundProfileLive(t) == ProfileOf(session_contexts[t.session_id].model)

\* the llm a round streams from: current_llm_tools, the local of the
\* generator (mcp_agent.py:322, 356, 442)
RoundProfile(t) == t.profile

\* a round of the turn streams from the model
ModelRound ==
    /\ turn.pc = "running"
    /\ turn' = [turn EXCEPT !.used = RoundProfile(turn)]
    /\ outcome' = [type |-> "ai_response_chunk", accesses |-> <<>>]
    /\ UNCHANGED session_contexts

\* the generator returns
TurnEnd ==
    /\ turn.pc = "running"
    /\ turn' = [pc |-> "idle", session_id |-> "", model_at_start |-> "",
                profile |-> "", used |-> ""]
    /\ outcome' = [type |-> "ai_response_end", accesses |-> <<>>]
    /\ UNCHANGED session_contexts

\* a local medical tool called with the msid of the session context: the
\* database accesses it makes, in order, and how it ends ("denied" for the
\* missing-scope ValueError, "error" for another ValueError).  arg is the
\* statement of medical_query and the table of descripttables ("table" has
\* an msid column, "other" has none or does not exist); the other tools
\* take no argument that matters here.
medical_tool(tool, arg, msid) ==
    LET Denied(acc) == [accesses |-> acc, result |-> "denied"]
        Error(acc) == [accesses |-> acc, result |-> "error"]
        Ok(acc) == [accesses |-> acc, result |-> "ok"]
    IN CASE tool = "medical_query" ->
              IF msid = <<>> THEN Denied(<<>>)
              ELSE IF arg = "show tables"
                   THEN Ok(<<"information_schema", "scoped_select">>)
              ELSE IF arg = "describe table"
                   THEN Ok(<<"information_schema", "describe">>)
              ELSE IF arg = "describe other"
                   THEN Error(<<"information_schema">>)
              ELSE IF arg = "select from table"
                   THEN Ok(<<"information_schema", "scoped_select">>)
              ELSE IF arg = "select 1"
                   THEN Ok(<<"information_schema", "unscoped_select">>)
              ELSE Error(<<>>)
         [] tool = "showtables" ->
              IF msid = <<>> THEN Denied(<<>>)
              ELSE Ok(<<"information_schema", "scoped_select">>)
         [] tool = "descripttables" ->
              IF arg # "table" THEN Error(<<"information_schema">>)
              ELSE IF msid = <<>> THEN Denied(<<"information_schema">>)
              ELSE Ok(<<"information_schema", "describe", "scoped_select">>)
         [] tool \in {"patient_count_stats", "adverse_event_analysis"} ->
              IF msid = <<>> THEN Denied(<<>>)
              ELSE Ok(<<"scoped_select">>)

\* chat_stream invokes a local medical tool in the running turn
\* (mcp_agent.py:546-554): an exception of the tool becomes a tool_error
InvokeMedicalTool ==
    /\ turn.pc = "running"
    /\ \E call \in
            ({"medical_query"} \X
                 {"show tables", "describe table", "describe other",
                  "select from table", "select 1", "drop"})
            \cup ({"descripttables"} \X {"table", "other"})
            \cup ({"showtables", "patient_count_stats",
                   "adverse_event_analysis"} \X {""}) :
          LET msid == session_contexts[turn.session_id].msid
              r == medical_tool(call[1], call[2], msid)
          IN outcome' = [type |-> IF r.result = "ok" THEN "tool_end"
                                  ELSE "tool_error",
                         accesses |-> r.accesses,
                         result |-> r.result, msid |-> msid]
    /\ UNCHANGED <<session_contexts, turn>>

NextSession ==
    \/ \E c \in SessionIds : Connect(c) /\ Only("session")
    \/ \E c \in SessionIds, session_id \in {"", "  ", "s9"},
          conversation_id \in {[kind |-> "none", n |-> 0],
                               [kind |-> "text", n |-> 0],
                               [kind |-> "digits", n |-> 3],
                               [kind |-> "int", n |-> 3],
                               [kind |-> "int", n |-> -1]} :
          handle_resume_conversation(c, session_id, conversation_id)
          /\ Only("session")
    \/ \E c \in SessionIds, model \in {"", "m2", "zz"} :
          SwitchModel(c, model) /\ Only("session")
    \/ \E c \in SessionIds : ChatStreamStart(c) /\ Only("session")
    \/ ModelRound /\ Only("session")
    \/ TurnEnd /\ Only("session")
    \/ InvokeMedicalTool /\ Only("session")

SpecSession == Init /\ [][NextSession]_allvars

\* C18: a local medical tool called in a session without msid ends with the
\* missing-scope refusal, reported as a tool_error, and has made no database
\* access; and no tool call runs a select that is not restricted to the msid.
C18_NoScopeNoAccess ==
    outcome.type \in {"tool_end", "tool_error"} =>
        /\ outcome.msid = <<>> =>
              /\ outcome.type = "tool_error"
              /\ outcome.result = "denied"
              /\ outcome.accesses = <<>>
        /\ \A i \in DOMAIN outcome.accesses :
              outcome.accesses[i] # "unscoped_select"

\* C19: a resume_conversation whose target session id is empty, or whose
\* target conversation id is not a non-negative integer, answers resume_error
\* and rebinds nothing; any other answers resume_ok.
C19_ResumeValidation ==
    [][\A c \in SessionIds, session_id \in {"", "  ", "s9"},
          kind \in {"none", "text", "digits", "int"}, n \in {-1, 0, 3} :
          handle_resume_conversation(c, session_id,
                                     [kind |-> kind, n |-> n]) =>
             IF /\ session_id \notin {"", "  "}
                /\ kind \in {"digits", "int"}
                /\ n >= 0
             THEN outcome'.type = "resume_ok"
             ELSE /\ outcome'.type = "resume_error"
                  /\ session_contexts' = session_contexts]_allvars

\* C20: a switch_model changes nothing but the model field of the context
\* of its own connection (an empty model id changes nothing at all) and
\* leaves the turn in flight as it is; every round of a turn streams from
\* the profile of the model the context held when the turn started; and a
\* turn that starts selects the profile of the model the context holds then.
C20_SwitchModelFrame ==
    [][/\ \A c \in SessionIds, model \in {"", "m2", "zz"} :
             SwitchModel(c, model) =>
                /\ turn' = turn
                /\ \A d \in SessionIds :
                      session_contexts'[d] =
                         IF d = c /\ model # ""
                         THEN [session_contexts[d] EXCEPT !.model = model]
                         ELSE session_contexts[d]
       /\ (turn'.pc = "running" /\ turn'.used # "") =>
             turn'.used = ProfileOf(turn'.model_at_start)
       /\ \A c \in SessionIds :
             ChatStreamStart(c) =>
                turn'.profile = ProfileOf(session_contexts[c].model)
      ]_allvars

\* a round has just streamed from the default profile in a turn whose
\* connection was switched to m2, a resumed thread and an msid in its context
C20_Witness ==
    /\ turn.pc = "running"
    /\ turn.used = "default"
    /\ outcome.type = "ai_response_chunk"
    /\ session_contexts[turn.session_id].model = "m2"
    /\ session_contexts[turn.session_id].msid = <<7>>
    /\ session_contexts[turn.session_id].effective_conversation_id = <<3>>

\* ================================================== chat_stream, continued
\* C21: every step that goes from the loop head into the model call of a
\* round k >= 2 starts from a shared history to which the round before
\* appended one assistant entry carrying its N tool calls followed by exactly
\* the N tool-role entries of calls 1..N, in call order, an entry of a failed
\* call holding the error; and nothing is appended to the history while the
\* model is being called.
C21_HistoryCompleteAtModelCall ==
    [][/\ (gen.pc = "loop_head" /\ gen'.pc = "probe" /\ gen.round_index >= 1) =>
             LET N == Len(gen.tool_calls_check)
             IN /\ N > 0
                /\ gen.shared_history =
                      <<[role |-> "assistant", id |-> 0, n |-> N, err |-> FALSE]>>
                      \o [i \in 1..N |->
                             [role |-> "tool", id |-> i, n |-> 0,
                              err |-> (i \in gen.raised
                                       \/ gen.tool_calls_check[i] \notin Registry)]]
       /\ gen'.pc \in {"probe", "retry"} => gen'.shared_history = <<>>
      ]_vars

\* the round before the model call of round 3 ran two calls: the first
\* raised, the second returned
C21_Witness ==
    /\ gen.pc = "loop_head" /\ gen.round_index = 2 /\ Running
    /\ gen.tool_calls_check = <<"showtables", "showtables">>
    /\ gen.raised = {1}

\* ======================================= the thread binding of a turn
\* The user_msg handler of websocket_chat (backend/main.py:213-241) and the
\* finally block of stream_and_persist (344-372).  session_ctx is the
\* dictionary stored in session_contexts, the one handle_resume_conversation
\* and replay_edit assign to; conversation_id is a local of the handler.
\* A conversation id "or" the next one: 0 counts as unset, as None does.

\* the handler resolves the thread, starting a conversation (whose id the
\* database returns) when the context binds none, and loads the history
UserMsgStart(c) ==
    LET ctx == session_contexts[c]
        effective_session_id ==
            IF ctx.effective_session_id # "" THEN ctx.effective_session_id
            ELSE c
        bound == IF ctx.effective_conversation_id \notin {<<>>, <<0>>}
                 THEN ctx.effective_conversation_id
                 ELSE ctx.conversation_id
    IN /\ ctx.connected
       /\ turn.pc = "idle"
       /\ \E started \in {1, 2} :
             LET conversation_id == IF bound # <<>> THEN bound[1] ELSE started
             IN /\ session_contexts' =
                       IF bound # <<>>
                       THEN session_contexts
                       ELSE [session_contexts EXCEPT ![c] =
                               [ctx EXCEPT
                                  !.conversation_id = <<started>>,
                                  !.effective_session_id = effective_session_id,
                                  !.effective_conversation_id = <<started>>]]
                /\ turn' = [pc |-> "running", session_id |-> c,
                            conversation_id |-> conversation_id,
                            history_thread |->
                                <<effective_session_id, conversation_id>>,
                            resumed |->
                                IF outcome.type = "resume_ok" /\ outcome.to = c
                                THEN <<outcome.session_id,
                                       outcome.conversation_id>>
                                ELSE <<>>]
       /\ outcome' = [type |-> "user_msg_received", accesses |-> <<>>]

\* the finally block saves the turn: the session id is read from the
\* context now, the conversation id is the handler's local
PersistTurn ==
    LET ctx == session_contexts[turn.session_id]
        effective_session_id_for_save ==
            IF ctx.effective_session_id # "" THEN ctx.effective_session_id
            ELSE turn.session_id
    IN /\ turn.pc = "running"
       /\ outcome' = [type |-> "record_saved", accesses |-> <<>>,
                      thread |-> <<effective_session_id_for_save,
                                   turn.conversation_id>>,
                      history_thread |-> turn.history_thread,
                      resumed |-> turn.resumed]
       /\ turn' = [pc |-> "idle", session_id |-> "", model_at_start |-> "",
                   profile |-> "", used |-> ""]
       /\ UNCHANGED session_contexts

NextBinding ==
    \/ \E c \in SessionIds : Connect(c) /\ Only("session")
    \/ \E c \in SessionIds : UserMsgStart(c) /\ Only("session")
    \/ \E c \in SessionIds, session_id \in {"", "s9"},
          conversation_id \in {[kind |-> "none", n |-> 0],
                               [kind |-> "text", n |-> 0],
                               [kind |-> "int", n |-> 0],
                               [kind |-> "int", n |-> 3]} :
          handle_resume_conversation(c, session_id, conversation_id)
          /\ Only("session")
    \/ PersistTurn /\ Only("session")

SpecBinding == Init /\ [][NextBinding]_allvars

\* C22: a turn is saved under the thread its history was loaded from,
\* whatever resume_conversation did to the binding of its connection while
\* the turn was in flight.
C22_TurnSavedWhereLoaded ==
    outcome.type = "record_saved" =>
        outcome.thread = outcome.history_thread

\* ========================================= build_shared_history, continued
\* C25: the list built for a turn of a model recorded as rejecting
\* multimodal content (force_text_only, mcp_agent.py:326-327) holds no image
\* part, whatever the persisted turns and the new user input contain.
C25_TextOnlyOnceRecorded ==
    (shared_history # <<>> /\ built.force_text_only) =>
        \A i \in 1..Len(shared_history) :
            \A j \in 1..Len(shared_history[i].parts) :
                shared_history[i].parts[j] # "image_url"

\* C27: every persisted turn that has an attachment that is not an image,
\* and for which no image part was attached, has the attachments footnote in
\* its user entry, whether or not the turn has user text.
C27_FootnoteForFiles ==
    \A k \in 1..Len(history) :
        \A e \in {shared_history[i] : i \in 1..Len(shared_history)} :
            (/\ e.role = "user" /\ e.turn = k
             /\ \E i \in 1..Len(history[k].attachments) :
                   history[k].attachments[i] = "file"
             /\ \A j \in 1..Len(e.parts) : e.parts[j] # "image_url")
            => e.text = "attachments_note"

\* C28: the list build_shared_history returns holds, for each persisted turn
\* oldest to newest, a user entry, then the "[Previous tool results]"
\* assistant entry exactly if the turn recorded tool results, then the
\* assistant answer exactly if the turn has one, and the new user input as
\* its last entry; for no persisted turn and a plain-text input it is the one
\* user entry with that text, no image part and no footnote.
C28_HistoryLayout ==
    shared_history # <<>> =>
    LET Kind(e) == IF e.role = "user"
                   THEN (IF e.turn = 0 THEN "input" ELSE "user")
                   ELSE e.text
        RECURSIVE Expected(_)
        Expected(k) ==
            IF k = 0 THEN <<>>
            ELSE Expected(k - 1)
                 \o <<[turn |-> k, kind |-> "user"]>>
                 \o (IF history[k].mcp_results
                     THEN <<[turn |-> k, kind |-> "tool_results"]>> ELSE <<>>)
                 \o (IF history[k].ai_response
                     THEN <<[turn |-> k, kind |-> "ai_response"]>> ELSE <<>>)
    IN /\ [i \in 1..Len(shared_history) |->
              [turn |-> shared_history[i].turn,
               kind |-> Kind(shared_history[i])]]
          = Expected(Len(history)) \o <<[turn |-> 0, kind |-> "input"]>>
       /\ \A i \in 1..Len(shared_history) :
             shared_history[i].role = "assistant" =>
                shared_history[i].parts = <<>>
       /\ shared_history[Len(shared_history)] =
             IF built.user_input.list
             THEN [role |-> "user", turn |-> 0,
                   parts |-> built.user_input.parts, text |-> ""]
             ELSE [role |-> "user", turn |-> 0, parts |-> <<>>,
                   text |-> "user_input"]
       /\ (history = <<>> /\ ~built.user_input.list) =>
             shared_history = <<[role |-> "user", turn |-> 0, parts |-> <<>>,
                                 text |-> "user_input"]>>

\* two turns, the first with tool results and an answer, the second with
\* neither, and a plain-text input
C28_Witness ==
    /\ Len(history) = 2
    /\ history[1].mcp_results /\ history[1].ai_response
    /\ ~history[2].mcp_results /\ ~history[2].ai_response
    /\ ~built.user_input.list
    /\ Len(shared_history) = 5

\* ================================================== chat_stream, continued
\* C23: once the probe of a round has raised an error that is not a
\* multimodal rejection, or its text-only retry has raised, the round has no
\* tool calls and no completion content, no error event is yielded, no model
\* call is begun after the one that raised, control goes through the branch
\* to the final part of the same round, and the generator returns with one
\* ai_response_start and one ai_response_end yielded over the turn, the two
\* alone (before the usage) when nothing was streamed before.
C23_StreamErrorFinalizes ==
    (gen.call_raised \cap {"probe", "retry"} # {}) =>
        /\ gen.pc \in {"branch", "finalize", "returned"}
        /\ gen.tool_calls_check = <<>> /\ ~gen.content_preview
        /\ ~Has(gen.rlog, "error")
        /\ gen.model_calls = IF "retry" \in gen.call_raised THEN 2 ELSE 1
        /\ gen.pc = "returned" =>
              /\ gen.n_start = 1 /\ gen.n_end = 1
              /\ (Has(gen.rlog, "ai_response_start")
                    /\ ~Has(gen.rlog, "ai_response_chunk")) =>
                    /\ Len(gen.rlog) >= 2
                    /\ gen.rlog[1] = EvStart /\ gen.rlog[2] = EvEnd
                    /\ \A k \in 3..Len(gen.rlog) : gen.rlog[k] = EvUsage

\* the probe of round 2 raised with nothing streamed in the turn, and the
\* generator has returned
C23_Witness ==
    /\ gen.pc = "returned" /\ gen.round_index = 2
    /\ gen.call_raised = {"probe"}
    /\ gen.rlog = <<EvStart, EvEnd>>

\* C24: once the probe of a round has raised a multimodal rejection, exactly
\* one text-only retry has been begun in the round; no round begins more
\* than that one retry; and when the retry has raised too the round has no
\* tool calls and no completion content and goes to its final part.
C24_OneTextOnlyRetry ==
    /\ gen.model_calls <= 2
    /\ "probe_mm" \in gen.call_raised =>
          /\ gen.model_calls = 2
          /\ gen.multimodal_fallback_attempted
          /\ "retry" \in gen.call_raised =>
                /\ gen.tool_calls_check = <<>> /\ ~gen.content_preview
                /\ gen.pc \in {"branch", "finalize", "returned"}

\* C26: when the generator has returned from its final part, a final text
\* that was not streamed has been yielded as a chunk before the
\* ai_response_end: the completion content of the last round when the round
\* streamed no chunk, and the message made of the error strings when the turn
\* has failed tool results and no model text; also in a turn whose
\* ai_response_start was yielded by an earlier round.
C26_FinalTextEmitted ==
    gen.pc = "returned" =>
        LET EndAt == CHOOSE k \in 1..Len(gen.rlog) :
                        gen.rlog[k].type = "ai_response_end"
            ChunkBeforeEnd == \E k \in 1..(EndAt - 1) :
                                 gen.rlog[k].type = "ai_response_chunk"
        IN /\ Has(gen.rlog, "ai_response_end")
           /\ (gen.content_preview /\ gen.buffered_chunks = 0) => ChunkBeforeEnd
           /\ tasks[T].final = "errors" => ChunkBeforeEnd

C29_IdsNeverReused ==
    \A i, j \in 1..Len(started_threads) :
       started_threads[i] = started_threads[j] => i = j

\* ================================================================ get_stats
\* get_stats: COUNT(*), COUNT(DISTINCT session_id), COUNT(DISTINCT
\* conversation_id) and MAX(created_at) of chat_records (<<>> for NULL)
get_stats ==
    [called |-> TRUE,
     total_records |-> Cardinality(chat_records),
     total_sessions |-> Cardinality({r.thread[1] : r \in chat_records}),
     total_conversations |-> Cardinality({r.thread[2] : r \in chat_records}),
     latest_record |->
        IF chat_records = {} THEN <<>>
        ELSE LET times == {r.created_at : r \in chat_records}
             IN <<CHOOSE m \in times : \A t \in times : t <= m>>]

\* GET /api/status and the other callers of get_stats (main.py:693)
GetStats ==
    /\ last_stats' = get_stats
    /\ UNCHANGED dbvars

NextStats ==
    \/ SaveTurn /\ Only("db")
    \/ DeleteConversation /\ Only("db")
    \/ Tick /\ Only("db")
    \/ GetStats /\ Only("stats")

SpecStats == Init /\ [][NextStats]_allvars

\* ---- C31: what get_stats returns counts the turns, the distinct sessions
\* and the distinct threads (the distinct <<session_id, conversation_id>>
\* pairs) of the turn log, and gives the created_at of the latest turn.
C31_StatsCountThreads ==
    [][GetStats =>
         /\ last_stats'.total_records = Cardinality(chat_records)
         /\ last_stats'.total_sessions =
               Cardinality({r.thread[1] : r \in chat_records})
         /\ last_stats'.total_conversations =
               Cardinality({r.thread : r \in chat_records})
         /\ \A r \in chat_records :
               /\ last_stats'.latest_record # <<>>
               /\ r.created_at <= last_stats'.latest_record[1]]_allvars

\* ---- C32: a source of tools that fails (get_tools of a server raises, a
\* local factory raises) gives the registry no tool and the registration
\* goes on: self.tools is at every moment the tools of the sources asked so
\* far, in their order, a source that raised has none, initialize_mcp_tools
\* is never left by a source's failure, and once it is done each of the
\* three local sources that did not raise has all of its tools registered.
C32_FailedSourceIsolated ==
    LET RECURSIVE Flat(_)
        Flat(sources) ==
            IF sources = <<>> THEN <<>>
            ELSE Head(sources).tools \o Flat(Tail(sources))
        locals == [__local__ |-> local_tools.medical,
                   __basic__ |-> local_tools.basic,
                   __markdown__ |-> local_tools.md]
    IN /\ init_pc \in {"new", "fetch", "done"}
       /\ tools = Flat(tools_by_server)
       /\ \A k \in 1..Len(tools_by_server) :
             tools_by_server[k].raised => tools_by_server[k].tools = <<>>
       /\ init_pc = "done" =>
             \A name \in DOMAIN locals :
                \E k \in 1..Len(tools_by_server) :
                   /\ tools_by_server[k].source = name
                   /\ ~tools_by_server[k].raised =>
                         tools_by_server[k].tools = locals[name]

C32_Witness ==
    /\ init_pc = "done"
    /\ \E j, k \in 1..Len(tools_by_server) :
          /\ j < k
          /\ tools_by_server[j].source = server_configs[1]
          /\ tools_by_server[j].raised
          /\ tools_by_server[k].source = server_configs[2]
          /\ tools_by_server[k].tools # <<>>
    /\ \E k \in 1..Len(tools_by_server) :
          /\ tools_by_server[k].source = "__local__"
          /\ tools_by_server[k].raised
    /\ \E k \in 1..Len(tools_by_server) :
          /\ tools_by_server[k].source = "__markdown__"
          /\ tools_by_server[k].tools = local_tools.md

\* ---- C33: the turn a connection starts next after a resume_ok loads its
\* history from the thread the resume named and is saved under that thread,
\* whatever conversation id the resume accepted; and a resume_conversation
\* changes neither the msid nor the model of any connection.
C33_ResumedThreadUsed ==
    [][/\ \A c \in SessionIds :
             (UserMsgStart(c) /\ turn'.resumed # <<>>)
             => turn'.history_thread = turn'.resumed
       /\ (PersistTurn /\ outcome'.resumed # <<>>)
             => outcome'.thread = outcome'.resumed
       /\ outcome'.type \in {"resume_ok", "resume_error"} =>
             \A c \in SessionIds :
                /\ session_contexts'[c].msid = session_contexts[c].msid
                /\ session_contexts'[c].model = session_contexts[c].model
      ]_allvars

\* ---- C34: a resume_conversation answered with resume_error leaves the
\* session context of its connection as it was: effective_session_id and
\* effective_conversation_id are those of before, so the thread of the next
\* turn is the one it would have been without the resume.
C34_RejectedResumeKeepsBinding ==
    [][\A c \in SessionIds, session_id \in {"", "s9"},
          kind \in {"none", "text", "int"}, n \in {0, 3} :
          (/\ handle_resume_conversation(c, session_id,
                                         [kind |-> kind, n |-> n])
           /\ outcome'.type = "resume_error")
          => /\ session_contexts'[c].effective_session_id =
                   session_contexts[c].effective_session_id
             /\ session_contexts'[c].effective_conversation_id =
                   session_contexts[c].effective_conversation_id
      ]_allvars

\* ================================= the variables a turn task closes over
\* stream_and_persist and stream_and_persist_edit are closures of the frame
\* of websocket_chat: conversation_data and attachments are read from the
\* frame each time the task's code names them.  chat_stream is called with
\* the parameters it declares, so a turn streams.

\* a user_msg or replay_edit is handled: conversation_data is bound to a new
\* dict (main.py:205, 462), a user_msg binds attachments too (173), and the
\* task of the turn is created
FrameMsg ==
    /\ Len(frame.turns) < MaxTasks
    /\ \E type \in {"user_msg", "replay_edit"} :
          LET m == Len(frame.turns) + 1
          IN frame' = [frame EXCEPT
                 !.conversation_data = m,
                 !.attachments = IF type = "user_msg" THEN m ELSE @,
                 !.dicts = Append(@, [user_input |-> m,
                                      mcp_results |-> <<>>,
                                      ai_response_parts |-> <<>>]),
                 !.turns = Append(@, [pc |-> "streaming", type |-> type,
                                      mcp_results |-> <<>>,
                                      ai_response_parts |-> <<>>])]

\* the loop body of a turn task takes an event of its chat_stream run: the
\* event is appended to a list of the dict conversation_data names now
\* (main.py:303-323).  One tool result and one chunk of a turn are followed.
TurnChunk(t) ==
    /\ frame.turns[t].pc = "streaming"
    /\ \E key \in {"mcp_results", "ai_response_parts"} :
          /\ frame.turns[t][key] = <<>>
          /\ frame' = [frame EXCEPT
                 !.dicts[frame.conversation_data][key] = Append(@, t),
                 !.turns[t][key] = Append(@, t)]

\* the finally block of a turn task hands its row to save_conversation
\* (main.py:344-362, 530-542)
TurnPersist(t) ==
    /\ frame.turns[t].pc = "streaming"
    /\ LET cd == frame.dicts[frame.conversation_data]
       IN frame' = [frame EXCEPT
              !.turns[t].pc = "done",
              !.saved = Append(@, [task |-> t,
                                   user_input |-> cd.user_input,
                                   mcp_results |-> cd.mcp_results,
                                   ai_response_parts |-> cd.ai_response_parts,
                                   attachments |->
                                      IF frame.turns[t].type = "replay_edit"
                                      THEN 0 ELSE frame.attachments])]

NextFrame ==
    \/ FrameMsg /\ Only("frame")
    \/ \E t \in DOMAIN frame.turns : TurnChunk(t) /\ Only("frame")
    \/ \E t \in DOMAIN frame.turns : TurnPersist(t) /\ Only("frame")

SpecFrame == Init /\ [][NextFrame]_allvars

\* ---- C35: the row saved for a turn holds the user input and the
\* attachments of the message that started the turn, and as tool results
\* and response text exactly what its own chat_stream run emitted, also
\* when a later user_msg or replay_edit of the connection was handled while
\* the turn was streaming.
C35_RecordHoldsOwnTurn ==
    \A k \in 1..Len(frame.saved) :
        LET row == frame.saved[k]
            own == frame.turns[row.task]
        IN /\ row.user_input = row.task
           /\ own.type = "user_msg" => row.attachments = row.task
           /\ row.mcp_results = own.mcp_results
           /\ row.ai_response_parts = own.ai_response_parts

\* ---- C36: a turn task that has started running ends only out of its one
\* await of save_conversation, whether it completed, met an error or was
\* paused; the text it saves is the text of the chunks forwarded before it
\* left the loop; and the task's entry in active_stream_tasks is removed
\* only once that save attempt is over.
C36_SaveOnceThenUntrack ==
    [][/\ \A t \in TaskIds :
             /\ (tasks'[t].pc \in {"done", "cancelled"}
                 /\ tasks[t].pc \in {"streaming", "saving"})
                => tasks[t].pc = "saving"
             /\ (tasks'[t].pc = "saving" /\ tasks[t].pc # "saving")
                => /\ tasks[t].pc \in {"created", "streaming"}
                   /\ tasks'[t].final =
                         FinalText(conversation_data'[tasks[t].conn])
             /\ tasks[t].pc = "saving" => tasks'[t].pc # "streaming"
       /\ \A c \in Conns :
             (active_stream_tasks[c] # 0
              /\ active_stream_tasks'[c] # active_stream_tasks[c])
             => tasks'[active_stream_tasks[c]].pc \in {"done", "cancelled"}
      ]_vars

\* ---- C37: an ai_response_end reaches a connection only to close a response
\* whose ai_response_start was delivered and that no earlier end has closed:
\* the end handle_pause sends, and the end a cancelled turn sends, each find
\* a response open on the connection, also when no turn is running.
C37_EndClosesOpenResponse ==
    [][\A c \in Conns :
          /\ Pause(c) => outbox[c].open
          /\ (CancelledStreaming /\ tasks[T].conn = c
              /\ tasks[T].response_started) => outbox[c].open
          /\ outbox'[c].ended => outbox'[c].started
      ]_vars

\* ===================================== the session a tool call runs for
\* chat_stream sets the ContextVar to the session id of its connection
\* (mcp_agent.py:298-303); it runs in the context of the turn task that
\* iterates it, and each task has a context of its own.  A local medical
\* tool reads the variable and the msid of that session's context
\* (medicaltool.py:90-96).

\* a faulty variant: one variable for all tasks, holding what was set last
ContextValueShared(c) == current_session_id_ctx.set_last

\* current_session_id_ctx.get() in the turn task of connection c
ContextValue(c) == current_session_id_ctx.in_task[c]

\* the turn of connection c starts chat_stream
ScopeTurnStart(c) ==
    /\ session_contexts[c].connected
    /\ current_session_id_ctx.in_task[c] = <<>>
    /\ current_session_id_ctx' =
          [current_session_id_ctx EXCEPT !.in_task[c] = <<c>>,
                                         !.set_last = <<c>>]

\* a local medical tool is invoked in the turn of connection c
ScopeToolCall(c) ==
    /\ current_session_id_ctx.in_task[c] # <<>>
    /\ LET session_id == ContextValue(c)
           ctx == IF session_id = <<>> THEN [msid |-> <<>>]
                  ELSE session_contexts[session_id[1]]
       IN current_session_id_ctx' =
             [current_session_id_ctx EXCEPT
                !.read = [task |-> c, session_id |-> session_id,
                          msid_value |-> ctx.msid]]

\* the turn task of connection c ends, and its context with it
ScopeTurnEnd(c) ==
    /\ current_session_id_ctx.in_task[c] # <<>>
    /\ current_session_id_ctx' =
          [current_session_id_ctx EXCEPT !.in_task[c] = <<>>]

NextScope ==
    \/ \E c \in SessionIds : Connect(c) /\ Only("session")
    \/ \E c \in SessionIds, session_id \in SessionIds :
          handle_resume_conversation(c, session_id, [kind |-> "int", n |-> 1])
          /\ Only("session")
    \/ \E c \in SessionIds : ScopeTurnStart(c) /\ Only("scope")
    \/ \E c \in SessionIds : ScopeToolCall(c) /\ Only("scope")
    \/ \E c \in SessionIds : ScopeTurnEnd(c) /\ Only("scope")

SpecScope == Init /\ [][NextScope]_allvars

\* ---- C38: a tool called in the turn of a connection reads the session id
\* of that connection and the msid of its context, whatever turns of other
\* connections run at the same time and whatever thread the connection has
\* resumed.
C38_ToolReadsOwnScope ==
    current_session_id_ctx.read # <<>> =>
        LET read == current_session_id_ctx.read
        IN /\ read.session_id = <<read.task>>
           /\ read.msid_value = session_contexts[read.task].msid

\* both turns run, c1 has resumed a thread of c2, the two contexts differ in
\* their msid, and c1's tool has read after c2's turn set the variable
C38_Witness ==
    /\ current_session_id_ctx.read # <<>>
    /\ current_session_id_ctx.read.task = "c1"
    /\ current_session_id_ctx.in_task["c2"] # <<>>
    /\ current_session_id_ctx.set_last = <<"c2">>
    /\ session_contexts["c1"].effective_session_id = "c2"
    /\ session_contexts["c1"].msid # session_contexts["c2"].msid

\* ---- C39: the turn of an accepted user_msg that is not paused runs
\* chat_stream, and when its record_saved is sent the turn task has already
\* delivered a terminal event, an ai_response_end or an error, to its
\* connection.  In Spec the events a turn task sends before record_saved
\* are those of chat_stream and the error of the vision check.
C39_TerminalEventBeforeSaved ==
    [][\A t \in TaskIds :
          (SaveDone(t) /\ ~tasks[t].reraise)
          => TurnTask(tasks[t].conn, t) \in outbox[tasks[t].conn].senders
      ]_vars

====
